---- MODULE Spec2Model ----
(***************************************************************************)
(* Detection-stream reconstruction of Lunseargen/sparthack11.               *)
(*                                                                         *)
(*   src/python/server.py   the Flask backend: the bounded detection       *)
(*                          buffer and its lock, the persisted detection   *)
(*                          log, range compaction, word segmentation and   *)
(*                          dictionary correction                          *)
(*   src/server.py          the stand-alone detection server (no lock)     *)
(*   src/realtime_detect.py the webcam loop writing [frame, conf, label]   *)
(*                                                                         *)
(* Strings are sequences of one-character strings, so that concatenation,  *)
(* splitting, formatting and parsing are computed and not assumed.         *)
(***************************************************************************)
EXTENDS Integers, Sequences, FiniteSets, TLC

VARIABLES
    detections_buffer,  \* _detections_buffer: deque(maxlen=MAX_ENTRIES)
    buffer_lock,        \* _buffer_lock: the thread holding it, or NoThread
    detections_log,     \* contents of the file DETECTIONS_LOG (a JSON array)
    frame_count,        \* the global frame counter of /send-frame
    pc,                 \* position of each request-handler thread
    local,              \* locals of each request-handler thread
    history,            \* every entry appended since the buffer was last cleared
    log_partial,        \* DETECTIONS_LOG is open for writing and not yet complete
    compacted_log,      \* the file compactedLog.json
    corrected_log,      \* the file CORRECTED_LOG
    requests,           \* the number of requests accepted so far
    call,               \* reconstruction pass: the function being applied
    compacted,          \* result of compact_detection_ranges
    words,              \* result of _extract_words_from_compacted
    corrected,          \* result of generate_corrected_log
    raw,                \* argument of _match_word; the letters sent to an oracle
    matched,            \* result of _match_word; the corrected text of a word
    top_level,          \* what json.load makes of the detection log
    raised,             \* the exception a pass was left by, "" when it returned
    answers,            \* the answers of the two oracles to one request
    gemini,             \* /analyze: the API key, the SDK and the oracle's outcome
    response,           \* /analyze: the HTTP response
    frames,             \* the files of FRAMES_DIR
    annotated,          \* the files of ANNOTATED_FRAMES_DIR
    annotated_count,    \* the value annotate_frames_from_corrected returns
    buffer,             \* src/server.py: buffer
    server_log,         \* src/server.py: the rows of DETECTIONS_LOG
    request,            \* src/server.py: the request being served
    returned_rows,      \* src/server.py: the rows GET /detections returns
    other,              \* the second string _levenshtein is applied to
    distance            \* the value _levenshtein returns

\* the buffer, its lock, the detection log and the frame counter
bufferState ==
    << detections_buffer, buffer_lock, detections_log, log_partial, frame_count,
       history, requests >>

vars == << detections_buffer, buffer_lock, detections_log, frame_count, pc,
           local, history, log_partial, compacted_log, corrected_log, requests,
           call, compacted, words, corrected, raw, matched, top_level, raised,
           answers, gemini, response, frames, annotated, annotated_count,
           buffer, server_log, request, returned_rows, other, distance >>

bufferVars == << detections_buffer, buffer_lock, frame_count, pc, local, history,
                log_partial, compacted_log, corrected_log, requests >>
oracleVars == << answers, gemini, response >>
annotatorVars == << frames, annotated, annotated_count >>
standaloneVars == << buffer, server_log, request, returned_rows >>
levenshteinVars == << other, distance >>
passVars == << call, compacted, words, corrected, raw, matched, top_level, raised,
              oracleVars, annotatorVars, standaloneVars, levenshteinVars >>

-----------------------------------------------------------------------------
(* Bounds of the model.                                                    *)

\* capacity of the detection buffer (YOLO_MAX_ENTRIES, 2000 unless configured)
MAX_ENTRIES == 2
\* YOLO_WRITE_EVERY (1 unless configured): 2, so that both outcomes of the
\* test in _log_detection occur
WRITE_EVERY == 2
\* requests accepted in one run of the server
MaxRequests == 2
\* frames of an uploaded video
MaxVideoFrames == 1
\* rows of a detection log given to a reconstruction pass
MaxLen == 3
\* compacted ranges given to the word segmenter directly
MaxRanges == 4
\* characters of a raw letter sequence given to the dictionary corrector
MaxRawLen == 3

-----------------------------------------------------------------------------
(* JSON values and strings.                                                *)

\* Python None / JSON null, an integer, a string
JNull == [t |-> "null", n |-> 0, s |-> << >>]
JInt(i) == [t |-> "int", n |-> i, s |-> << >>]
JStr(chars) == [t |-> "str", n |-> 0, s |-> chars]

\* Python truthiness of a JSON value: None, 0 and '' are falsy
Truthy(v) ==
    CASE v.t = "null" -> FALSE
      [] v.t \in {"int", "bool"} -> v.n # 0
      [] OTHER -> v.s # << >>

\* a or b
PyOr(a, b) == IF Truthy(a) THEN a ELSE b

DigitChars == << "0", "1", "2", "3", "4", "5", "6", "7", "8", "9" >>

DigitValue(c) == CHOOSE d \in 0..9 : DigitChars[d + 1] = c

IsDigit(c) == \E d \in 0..9 : DigitChars[d + 1] = c

RECURSIVE NatToStr(_)
\* decimal digits of a natural number
NatToStr(n) ==
    IF n < 10 THEN << DigitChars[n + 1] >>
    ELSE NatToStr(n \div 10) \o << DigitChars[(n % 10) + 1] >>

\* str(i), as formatted by an f-string
IntToStr(i) == IF i < 0 THEN << "-" >> \o NatToStr(0 - i) ELSE NatToStr(i)

RECURSIVE DigitsToNat(_, _)
DigitsToNat(chars, acc) ==
    IF chars = << >> THEN acc
    ELSE DigitsToNat(Tail(chars), acc * 10 + DigitValue(Head(chars)))

\* int(s) for a string: an optional sign and at least one digit; the result
\* is << n >>, or << >> where int() raises ValueError
ParseInt(chars) ==
    LET signed == chars # << >> /\ Head(chars) \in {"-", "+"}
        digits == IF signed THEN Tail(chars) ELSE chars
    IN  IF digits = << >> \/ \E k \in 1..Len(digits) : ~IsDigit(digits[k])
        THEN << >>
        ELSE IF signed /\ Head(chars) = "-"
             THEN << 0 - DigitsToNat(digits, 0) >>
             ELSE << DigitsToNat(digits, 0) >>

\* int(frame) of a JSON value: << n >>, or << >> where int() raises
PyInt(v) ==
    CASE v.t = "int" -> << v.n >>
      [] v.t = "str" -> ParseInt(v.s)
      [] OTHER -> << >>

\* s.split('-', 1): << left, right >>, or << s >> when s holds no '-'
SplitDash(chars) ==
    IF \E k \in 1..Len(chars) : chars[k] = "-"
    THEN LET k == CHOOSE i \in 1..Len(chars) :
                      chars[i] = "-" /\ \A j \in 1..(i - 1) : chars[j] # "-"
         IN  << SubSeq(chars, 1, k - 1), SubSeq(chars, k + 1, Len(chars)) >>
    ELSE << chars >>

\* f"{start}-{end}"
FormatRange(start, end) == IntToStr(start) \o << "-" >> \o IntToStr(end)

LowerChar(c) ==
    CASE c = "A" -> "a"
      [] c = "C" -> "c"
      [] c = "H" -> "h"
      [] c = "T" -> "t"
      [] OTHER -> c

\* str.lower()
Lower(chars) == [k \in 1..Len(chars) |-> LowerChar(chars[k])]

RECURSIVE Join(_)
\* ''.join(parts)
Join(parts) == IF parts = << >> THEN << >> ELSE Head(parts) \o Join(Tail(parts))

SeqsUpTo(S, n) == UNION {[1..k -> S] : k \in 0..n}

-----------------------------------------------------------------------------
(* Rows of a detection log.                                                *)

\* a JSON object: the keys compaction reads (a missing key reads as None)
DictRow(fc, fr, lb) ==
    [kind |-> "dict", frame_count |-> fc, frame |-> fr, label |-> lb, items |-> << >>]
\* a JSON array, as written by realtime_detect.py: [frame, confidence, label]
ListRow(items) ==
    [kind |-> "list", frame_count |-> JNull, frame |-> JNull, label |-> JNull,
     items |-> items]
\* any other JSON value
OtherRow ==
    [kind |-> "other", frame_count |-> JNull, frame |-> JNull, label |-> JNull,
     items |-> << >>]

\* the entry the servers build for one classified frame
Entry(f, lb) == DictRow(JInt(f), JNull, JStr(lb))

-----------------------------------------------------------------------------
(* RangeCompactor: compact_detection_ranges.                               *)

_extract_frame_label(row) ==
    IF row.kind = "dict"
    THEN << PyOr(row.frame_count, row.frame), row.label >>
    ELSE IF row.kind = "list" /\ Len(row.items) >= 3
         THEN << row.items[1], row.items[3] >>
         ELSE << JNull, JNull >>

\* a closed range, as appended to `compacted`
RangeEntry(start, end, label) ==
    [frameRange |-> FormatRange(start, end), label |-> label]

\* the loop's state before the first row; current_label None is JNull
CompactStart ==
    [compacted |-> << >>, current_label |-> JNull, range_start |-> 0, range_end |-> 0]

\* CompactRow without the `label == current_label` branch: every row closes
\* the open range
CompactRow_NoMerge(st, row) ==
    LET fl == _extract_frame_label(row)
        frame == PyInt(fl[1])
        label == fl[2]
    IN  IF fl[1].t = "null" \/ label.t = "null" THEN st
        ELSE IF frame = << >> THEN st
        ELSE IF st.current_label.t = "null"
             THEN [st EXCEPT !.current_label = label,
                             !.range_start = frame[1],
                             !.range_end = frame[1]]
        ELSE [compacted |-> Append(st.compacted,
                                   RangeEntry(st.range_start, st.range_end,
                                              st.current_label)),
              current_label |-> label,
              range_start |-> frame[1],
              range_end |-> frame[1]]

\* CompactRow taking each frame of a run as the range's end
CompactRow_LastFrame(st, row) ==
    LET fl == _extract_frame_label(row)
        frame == PyInt(fl[1])
        label == fl[2]
    IN  IF fl[1].t = "null" \/ label.t = "null" THEN st
        ELSE IF frame = << >> THEN st
        ELSE IF st.current_label.t = "null"
             THEN [st EXCEPT !.current_label = label,
                             !.range_start = frame[1],
                             !.range_end = frame[1]]
        ELSE IF label = st.current_label
             THEN [st EXCEPT !.range_end = frame[1]]
        ELSE [compacted |-> Append(st.compacted,
                                   RangeEntry(st.range_start, st.range_end,
                                              st.current_label)),
              current_label |-> label,
              range_start |-> frame[1],
              range_end |-> frame[1]]

\* CompactRow closing the open range at a row without frame or label
CompactRow_CloseOnMalformed(st, row) ==
    LET fl == _extract_frame_label(row)
        frame == PyInt(fl[1])
        label == fl[2]
    IN  IF fl[1].t = "null" \/ label.t = "null"
        THEN IF st.current_label.t = "null" THEN st
             ELSE [st EXCEPT !.compacted = Append(@, RangeEntry(st.range_start,
                                                                st.range_end,
                                                                st.current_label)),
                             !.current_label = JNull]
        ELSE IF frame = << >> THEN st
        ELSE IF st.current_label.t = "null"
             THEN [st EXCEPT !.current_label = label,
                             !.range_start = frame[1],
                             !.range_end = frame[1]]
        ELSE IF label = st.current_label
             THEN IF frame[1] > st.range_end
                  THEN [st EXCEPT !.range_end = frame[1]]
                  ELSE st
        ELSE [compacted |-> Append(st.compacted,
                                   RangeEntry(st.range_start, st.range_end,
                                              st.current_label)),
              current_label |-> label,
              range_start |-> frame[1],
              range_end |-> frame[1]]

\* one iteration of `for row in data or []`
CompactRow(st, row) ==
    LET fl == _extract_frame_label(row)
        frame == PyInt(fl[1])
        label == fl[2]
    IN  IF fl[1].t = "null" \/ label.t = "null" THEN st
        ELSE IF frame = << >> THEN st
        ELSE IF st.current_label.t = "null"
             THEN [st EXCEPT !.current_label = label,
                             !.range_start = frame[1],
                             !.range_end = frame[1]]
        ELSE IF label = st.current_label
             THEN IF frame[1] > st.range_end
                  THEN [st EXCEPT !.range_end = frame[1]]
                  ELSE st
        ELSE [compacted |-> Append(st.compacted,
                                   RangeEntry(st.range_start, st.range_end,
                                              st.current_label)),
              current_label |-> label,
              range_start |-> frame[1],
              range_end |-> frame[1]]

RECURSIVE CompactLoop(_, _)
CompactLoop(st, rows) ==
    IF rows = << >> THEN st ELSE CompactLoop(CompactRow(st, Head(rows)), Tail(rows))

\* the list compact_detection_ranges returns for the rows read from the log
compact_detection_ranges(data) ==
    LET st == CompactLoop(CompactStart, data)
    IN  IF st.current_label.t # "null"
        THEN Append(st.compacted,
                    RangeEntry(st.range_start, st.range_end, st.current_label))
        ELSE st.compacted

-----------------------------------------------------------------------------
(* WordSegmenter: _extract_words_from_compacted.                           *)

\* separator_labels without the no-signal label
separator_labels_NoNone ==
    { << "s", "p" >>, << "s", "p", "a", "c", "e" >>, << "_" >>, << "f", "n" >> }

separator_labels ==
    { << "s", "p" >>, << "s", "p", "a", "c", "e" >>, << "_" >>, << "f", "n" >>,
      << "n", "o", "n", "e" >> }

\* f"{x}" of an int or of None
FormatOpt(x) == IF x = << >> THEN << "N", "o", "n", "e" >> ELSE IntToStr(x[1])

WordEntry(word_start, word_end, current) ==
    [frameRange |-> FormatOpt(word_start) \o << "-" >> \o FormatOpt(word_end),
     raw |-> Join([k \in 1..Len(current) |-> current[k].s])]

\* the loop's state before the first entry; raised: a TypeError has left
\* the function
ExtractStart ==
    [words |-> << >>, current |-> << >>, word_start |-> << >>, word_end |-> << >>,
     raised |-> FALSE]

\* `words.append({... 'raw': ''.join(current)})` and the reset of the word:
\* str.join raises TypeError when an item of current is not a str
EmitWord(st) ==
    IF \E k \in 1..Len(st.current) : st.current[k].t # "str"
    THEN [st EXCEPT !.raised = TRUE]
    ELSE [st EXCEPT !.words = Append(@, WordEntry(st.word_start, st.word_end,
                                                  st.current)),
                    !.current = << >>,
                    !.word_start = << >>,
                    !.word_end = << >>]

\* ExtractEntry without the `not label` test: an empty label is appended
ExtractEntry_KeepEmptyLabel(st, entry) ==
    LET label == entry.label
        parts == SplitDash(entry.frameRange)
        start_frame == IF Len(parts) = 2 THEN ParseInt(parts[1]) ELSE << >>
        end_frame == IF Len(parts) = 2 THEN ParseInt(parts[2]) ELSE << >>
    IN  IF st.raised THEN st
        ELSE IF start_frame = << >> \/ end_frame = << >> THEN st
        ELSE IF label.t = "str" /\ label.s \in separator_labels
             THEN IF st.current # << >> THEN EmitWord(st) ELSE st
        ELSE [st EXCEPT !.word_start = IF @ = << >> THEN start_frame ELSE @,
                        !.word_end = end_frame,
                        !.current = Append(@, label)]

\* ExtractEntry taking an empty-string label for a symbol
ExtractEntry_EmptyLabelIsSymbol(st, entry) ==
    LET label == entry.label
        frame_range == entry.frameRange
        parts == SplitDash(frame_range)
        start_frame == IF Len(parts) = 2 THEN ParseInt(parts[1]) ELSE << >>
        end_frame == IF Len(parts) = 2 THEN ParseInt(parts[2]) ELSE << >>
    IN  IF st.raised THEN st
        ELSE IF (~Truthy(label) /\ label # JStr(<< >>)) \/ frame_range = << >> THEN st
        ELSE IF start_frame = << >> \/ end_frame = << >> THEN st
        ELSE IF label.t = "str" /\ label.s \in separator_labels
             THEN IF st.current # << >> THEN EmitWord(st) ELSE st
        ELSE [st EXCEPT !.word_start = IF @ = << >> THEN start_frame ELSE @,
                        !.word_end = end_frame,
                        !.current = Append(@, label)]

\* ExtractEntry without the `if current` test: every separator emits a word
ExtractEntry_EmitOnSeparator(st, entry) ==
    LET label == entry.label
        parts == SplitDash(entry.frameRange)
        start_frame == IF Len(parts) = 2 THEN ParseInt(parts[1]) ELSE << >>
        end_frame == IF Len(parts) = 2 THEN ParseInt(parts[2]) ELSE << >>
    IN  IF st.raised THEN st
        ELSE IF ~Truthy(label) \/ entry.frameRange = << >> THEN st
        ELSE IF start_frame = << >> \/ end_frame = << >> THEN st
        ELSE IF label.t = "str" /\ label.s \in separator_labels
             THEN EmitWord(st)
        ELSE [st EXCEPT !.word_start = IF @ = << >> THEN start_frame ELSE @,
                        !.word_end = end_frame,
                        !.current = Append(@, label)]

\* one iteration of `for entry in compacted`; a label that is a number is
\* not in separator_labels and is appended to current like a letter
ExtractEntry(st, entry) ==
    LET label == entry.label
        frame_range == entry.frameRange
        parts == SplitDash(frame_range)
        start_frame == IF Len(parts) = 2 THEN ParseInt(parts[1]) ELSE << >>
        end_frame == IF Len(parts) = 2 THEN ParseInt(parts[2]) ELSE << >>
    IN  IF st.raised THEN st
        ELSE IF ~Truthy(label) \/ frame_range = << >> THEN st
        ELSE IF start_frame = << >> \/ end_frame = << >> THEN st
        ELSE IF label.t = "str" /\ label.s \in separator_labels
             THEN IF st.current # << >> THEN EmitWord(st) ELSE st
        ELSE [st EXCEPT !.word_start = IF @ = << >> THEN start_frame ELSE @,
                        !.word_end = end_frame,
                        !.current = Append(@, label)]

RECURSIVE ExtractLoop(_, _)
ExtractLoop(st, entries) ==
    IF entries = << >> THEN st
    ELSE ExtractLoop(ExtractEntry(st, Head(entries)), Tail(entries))

\* the state _extract_words_from_compacted ends in: after the loop a word
\* in progress is emitted
ExtractEnd(ranges) ==
    LET st == ExtractLoop(ExtractStart, ranges)
    IN  IF ~st.raised /\ st.current # << >> THEN EmitWord(st) ELSE st

\* _extract_words_from_compacted without the flush after the loop
extract_words_NoFlush(ranges) == ExtractLoop(ExtractStart, ranges).words

\* the list _extract_words_from_compacted returns
_extract_words_from_compacted(ranges) == ExtractEnd(ranges).words

\* _extract_words_from_compacted is left by a TypeError and returns nothing
extract_words_raises(ranges) == ExtractEnd(ranges).raised

-----------------------------------------------------------------------------
(* DictionaryCorrector: _levenshtein and _match_word.                      *)

\* the default of _match_word's max_distance
DEFAULT_MAX_DISTANCE == 2

\* A sample of the words of COMMON_WORDS (lengths 1 to 5), enough for exact
\* hits, ties at the minimum distance within and across lengths, raw strings
\* with no word within max_distance, and the words near "helo" and "hi".
COMMON_WORDS ==
    { << "a" >>, << "i" >>,
      << "a", "t" >>, << "i", "t" >>, << "h", "i" >>, << "a", "s" >>,
      << "c", "a", "t" >>, << "c", "a", "n" >>, << "c", "a", "r" >>,
      << "s", "a", "t" >>,
      << "t", "h", "a", "t" >>, << "h", "e", "l", "p" >>,
      << "h", "e", "l", "l", "o" >> }

\* _WORDS_BY_LEN.get(length, set())
_WORDS_BY_LEN(length) == {w \in COMMON_WORDS : Len(w) = length}

Min2(a, b) == IF a < b THEN a ELSE b

RECURSIVE LevRow_AlwaysSubstitute(_, _, _, _)
\* LevRow charging a substitution also where the characters are equal
LevRow_AlwaysSubstitute(curr_row, prev_row, c1, s2) ==
    IF Len(curr_row) = Len(s2) + 1 THEN curr_row
    ELSE LET j == Len(curr_row)
             insertions == prev_row[j + 1] + 1
             deletions == curr_row[j] + 1
             substitutions == prev_row[j] + 1
         IN  LevRow_AlwaysSubstitute(
                 Append(curr_row, Min2(insertions, Min2(deletions, substitutions))),
                 prev_row, c1, s2)

RECURSIVE LevRow(_, _, _, _)
\* the inner loop `for j, c2 in enumerate(s2)`: curr_row grows to Len(s2) + 1
LevRow(curr_row, prev_row, c1, s2) ==
    IF Len(curr_row) = Len(s2) + 1 THEN curr_row
    ELSE LET j == Len(curr_row)
             insertions == prev_row[j + 1] + 1
             deletions == curr_row[j] + 1
             substitutions == prev_row[j] + (IF c1 # s2[j] THEN 1 ELSE 0)
         IN  LevRow(Append(curr_row, Min2(insertions, Min2(deletions, substitutions))),
                    prev_row, c1, s2)

RECURSIVE LevRows(_, _, _, _)
\* the outer loop `for i, c1 in enumerate(s1)`, i counted from 0
LevRows(prev_row, i, s1, s2) ==
    IF i = Len(s1) THEN prev_row
    ELSE LevRows(LevRow(<< i + 1 >>, prev_row, s1[i + 1], s2), i + 1, s1, s2)

_levenshtein(a, b) ==
    LET s1 == IF Len(a) < Len(b) THEN b ELSE a
        s2 == IF Len(a) < Len(b) THEN a ELSE b
    IN  IF s2 = << >> THEN Len(s1)
        ELSE LevRows([k \in 1..(Len(s2) + 1) |-> k - 1], 0, s1, s2)[Len(s2) + 1]

\* ScanCandidates keeping the first word nearer than best_dist and no better
\* one after it
ScanCandidates_FirstNearer(best, candidates, raw_lower) ==
    LET nearer == {w \in candidates : _levenshtein(raw_lower, w) < best.best_dist}
    IN  IF nearer = {} THEN {best}
        ELSE {[best_dist |-> _levenshtein(raw_lower, w), best_match |-> << w >>] :
                 w \in nearer}

\* `for word in candidates` over a set, whose iteration order Python leaves
\* open: with the strict `dist < best_dist` the loop ends holding the first
\* word met at the least distance, which can be any word at that distance.
\* The value is the set of (best_dist, best_match) the loop can end with.
ScanCandidates(best, candidates, raw_lower) ==
    LET dists == {_levenshtein(raw_lower, w) : w \in candidates}
        least == CHOOSE d \in dists : \A e \in dists : d <= e
    IN  IF candidates = {} \/ least >= best.best_dist THEN {best}
        ELSE {[best_dist |-> least, best_match |-> << w >>] :
                 w \in {x \in candidates : _levenshtein(raw_lower, x) = least}}

RECURSIVE ScanLengths(_, _, _, _)
\* `for length in range(length, stop)`, from each (best_dist, best_match) so far
ScanLengths(bests, length, stop, raw_lower) ==
    IF length >= stop THEN bests
    ELSE ScanLengths(UNION {ScanCandidates(b, _WORDS_BY_LEN(length), raw_lower) :
                               b \in bests},
                     length + 1, stop, raw_lower)

\* _match_word comparing raw itself, not raw.lower(), with the lexicon
_match_word_NoLower(raw_in, max_distance) ==
    LET raw_len == Len(raw_in)
        first == IF raw_len - max_distance > 1 THEN raw_len - max_distance ELSE 1
        ends == ScanLengths({[best_dist |-> max_distance + 1, best_match |-> << >>]},
                            first, raw_len + max_distance + 1, raw_in)
    IN  IF raw_in \in COMMON_WORDS THEN {raw_in}
        ELSE {IF b.best_match # << >> /\ b.best_dist <= max_distance
              THEN b.best_match[1]
              ELSE raw_in : b \in ends}

\* _match_word searching the lengths within 1 of the raw string's
_match_word_NarrowWindow(raw_in, max_distance) ==
    LET raw_lower == Lower(raw_in)
        raw_len == Len(raw_lower)
        first == IF raw_len - 1 > 1 THEN raw_len - 1 ELSE 1
        ends == ScanLengths({[best_dist |-> max_distance + 1, best_match |-> << >>]},
                            first, raw_len + 2, raw_lower)
    IN  IF raw_lower \in COMMON_WORDS THEN {raw_lower}
        ELSE {IF b.best_match # << >> /\ b.best_dist <= max_distance
              THEN b.best_match[1]
              ELSE raw_in : b \in ends}

\* the words _match_word(raw, max_distance) can return
_match_word(raw_in, max_distance) ==
    LET raw_lower == Lower(raw_in)
        raw_len == Len(raw_lower)
        first == IF raw_len - max_distance > 1 THEN raw_len - max_distance ELSE 1
        ends == ScanLengths({[best_dist |-> max_distance + 1, best_match |-> << >>]},
                            first, raw_len + max_distance + 1, raw_lower)
    IN  IF raw_lower \in COMMON_WORDS THEN {raw_lower}
        ELSE {IF b.best_match # << >> /\ b.best_dist <= max_distance
              THEN b.best_match[1]
              ELSE raw_in : b \in ends}

RECURSIVE CorrectedFrom(_)
\* the lists the loop of generate_corrected_log can build from word_entries
CorrectedFrom(word_entries) ==
    IF word_entries = << >> THEN {<< >>}
    ELSE LET word == Head(word_entries)
             rest == CorrectedFrom(Tail(word_entries))
         IN  IF word.raw = << >> THEN rest
             ELSE {<< [frame |-> word.frameRange, string |-> m] >> \o r :
                      m \in _match_word(word.raw, DEFAULT_MAX_DISTANCE), r \in rest}

\* the values generate_corrected_log can return for the rows of the log:
\* the compacted ranges, the word entries and the corrected list
generate_corrected_log(data) ==
    LET ranges == compact_detection_ranges(data)
        word_entries == _extract_words_from_compacted(ranges)
    IN  IF extract_words_raises(ranges)
        THEN {[compacted |-> ranges, words |-> << >>, corrected |-> << >>,
               raised |-> "TypeError"]}
        ELSE {[compacted |-> ranges, words |-> word_entries, corrected |-> c,
               raised |-> ""] : c \in CorrectedFrom(word_entries)}

-----------------------------------------------------------------------------
(* OracleCorrector: the reconciliation of two oracles' answers (spec.md    *)
(* section 4.5) and the /analyze endpoint of src/server.py.                *)

\* an oracle's answer: << word >>, or << >> for no answer (failure, timeout)
NoAnswer == << >>

\* oracle_reconcile preferring the second oracle's answer on disagreement
oracle_reconcile_SecondFirst(raw_in, first, second) ==
    IF second # NoAnswer THEN second[1]
    ELSE IF first # NoAnswer THEN first[1]
    ELSE raw_in

\* spec.md section 4.5: both answers equal case-insensitively: that word;
\* otherwise the first oracle's answer if present, else the second's, else
\* the raw string; the dictionary is not consulted
oracle_reconcile(raw_in, first, second) ==
    IF first # NoAnswer /\ second # NoAnswer /\ Lower(first[1]) = Lower(second[1])
    THEN first[1]
    ELSE IF first # NoAnswer THEN first[1]
    ELSE IF second # NoAnswer THEN second[1]
    ELSE raw_in

Whitespace == {" ", "\n"}

RECURSIVE LStrip(_)
LStrip(chars) ==
    IF chars # << >> /\ Head(chars) \in Whitespace THEN LStrip(Tail(chars)) ELSE chars

RECURSIVE RStrip(_)
RStrip(chars) ==
    IF chars # << >> /\ chars[Len(chars)] \in Whitespace
    THEN RStrip(SubSeq(chars, 1, Len(chars) - 1))
    ELSE chars

\* str.strip()
Strip(chars) == RStrip(LStrip(chars))

Response(status, result, error) == [status |-> status, result |-> result, error |-> error]

\* what client.models.generate_content does: it returns a response with this
\* text, returns one with no text, or raises (network error, timeout, quota)
GeminiOutcomes == {"text", "no_text", "raises"}
\* the text of the oracle's response
GeminiText == << " ", "c", "a", "t", "\n" >>

\* analyze, src/server.py lines 119-152, for the payload's text
analyze(text_in, env) ==
    LET text == Strip(text_in)
    IN  IF text = << >> THEN Response(400, << >>, "text missing")
        ELSE IF ~env.api_key THEN Response(500, << >>, "GEMINI_API_KEY not set")
        ELSE IF ~env.sdk THEN Response(500, << >>, "Gemini SDK not installed")
        ELSE CASE env.outcome = "raises" -> Response(500, << >>, "Gemini request failed")
               [] env.outcome = "text" -> Response(200, Strip(GeminiText), "")
               [] OTHER -> Response(200, << >>, "")

-----------------------------------------------------------------------------
(* FrameAnnotator: annotate_frames_from_corrected, lines 622-698.          *)

\* the directories of the stored frames and of the annotated copies
FRAMES_DIR == "frames"
ANNOTATED_FRAMES_DIR == "frames_annotated"

\* a frame image file: its name, the number in its name, whether cv2.imread
\* can read it, and the text drawn on it (none on a stored frame)
FrameFile(name, num, readable) ==
    [name |-> name, num |-> num, readable |-> readable, overlay |-> << >>]

\* _index_frames, lines 631-643: one file per frame number; when two files
\* carry the same number the one glob yields last stays, and glob's order is
\* the directory's
_index_frames(files) ==
    LET nums == {f.num : f \in files}
    IN  {index \in [nums -> files] : \A n \in nums : index[n].num = n}

\* cv2.imwrite(dir / name, img): the file of that name is created or replaced
imwrite(st, dir, file) ==
    IF dir = FRAMES_DIR
    THEN [st EXCEPT !.frames = {f \in st.frames : f.name # file.name} \cup {file}]
    ELSE [st EXCEPT !.annotated = {f \in st.annotated : f.name # file.name} \cup {file}]

\* lines 667-696: one frame number of a word's range
AnnotateFrame(st, index, text, frame_num) ==
    IF frame_num \notin DOMAIN index THEN st
    ELSE LET frame_path == index[frame_num]
         IN  IF ~frame_path.readable THEN st
             ELSE [imwrite(st, ANNOTATED_FRAMES_DIR, [frame_path EXCEPT !.overlay = text])
                      EXCEPT !.annotated_count = st.annotated_count + 1]

\* for frame_num in range(start_frame, end_frame + 1)
RECURSIVE AnnotateRange(_, _, _, _, _)
AnnotateRange(st, index, text, frame_num, end_frame) ==
    IF frame_num > end_frame THEN st
    ELSE AnnotateRange(AnnotateFrame(st, index, text, frame_num), index, text,
                       frame_num + 1, end_frame)

\* lines 656-665: << start_frame, end_frame >> of an entry, or << >> when
\* the entry is skipped
EntryFrames(entry) ==
    IF entry.frame = << >> \/ entry.string = << >> THEN << >>
    ELSE LET parts == SplitDash(entry.frame)
         IN  IF Len(parts) # 2 THEN << >>
             ELSE IF ParseInt(parts[1]) = << >> \/ ParseInt(parts[2]) = << >> THEN << >>
             ELSE << ParseInt(parts[1])[1], ParseInt(parts[2])[1] >>

\* for entry in corrected
RECURSIVE AnnotateEntries(_, _, _)
AnnotateEntries(st, index, entries) ==
    IF entries = << >> THEN st
    ELSE LET entry == Head(entries)
             range == EntryFrames(entry)
             next == IF range = << >> THEN st
                     ELSE AnnotateRange(st, index, entry.string, range[1], range[2])
         IN  AnnotateEntries(next, index, Tail(entries))

\* the states annotate_frames_from_corrected can leave the two directories
\* in, with the count it returns
annotate_frames_from_corrected(files, entries) ==
    {AnnotateEntries([frames |-> files, annotated |-> {}, annotated_count |-> 0],
                     index, entries) : index \in _index_frames(files)}

-----------------------------------------------------------------------------
(* The request-handler threads and the state after start-up.               *)

Threads == {1, 2}
NoThread == 0

Idle == [fn |-> "none", done |-> FALSE]

\* the detection log is a JSON array: its rows are in detections_log
JArray == [t |-> "array", n |-> 0, s |-> << >>]
\* the detection log is not JSON: json.load raises
Unparseable == [t |-> "unparseable", n |-> 0, s |-> << >>]
JBool(b) == [t |-> "bool", n |-> IF b THEN 1 ELSE 0, s |-> << >>]
\* a JSON object with these keys
JObject(keys) == [t |-> "object", n |-> 0, s |-> keys]

\* compact_detection_ranges, lines 343-364: the rows `for row in data or []`
\* goes through. A log json.load cannot parse gives the rows of [], as the
\* function then returns []; a falsy value gives none; a string gives its
\* characters and an object its keys, which are rows of no use
IterableRows(top, rows) ==
    CASE top.t = "array" -> rows
      [] top.t = "unparseable" -> << >>
      [] ~Truthy(top) -> << >>
      [] OTHER -> [k \in 1..Len(top.s) |-> OtherRow]

\* `for row in data or []` raises TypeError: a number other than 0, or true
NotIterable(top) == top.t \in {"int", "bool"} /\ Truthy(top)
\* /analyze is not in use
NoGemini == [api_key |-> FALSE, sdk |-> FALSE, outcome |-> "none"]
NoResponse == [status |-> 0, result |-> << >>, error |-> ""]

\* request.args.get('limit') of a request without the parameter
NoLimit == << "N", "o", "n", "e" >>
\* the default of `limit`
DEFAULT_LIMIT == 4

\* a request: the limit parameter of GET /detections; for POST /detect-frame
\* whether the model is loaded, the state of the frame field and the label
\* model.predict reports
NoRequest == [limit |-> NoLimit, model |-> FALSE, frame |-> "missing", label |-> << >>]

\* the locals of a handler that is not running
NoLocals ==
    [entry |-> OtherRow, frame_idx |-> 0, data |-> << >>,
     fn |-> "", ranges |-> << >>, out |-> << >>]

\* an output file: the document last written to it, its length in characters
\* and whether it holds that document whole. A document of this size is
\* buffered by the file object and reaches the file when it is closed.
OutputFile(rows, size, whole) == [rows |-> rows, size |-> size, whole |-> whole]

\* the file holding '[]\n'
EmptyOutput == OutputFile(<< >>, 3, TRUE)

BufferInit ==
    /\ detections_buffer = << >>
    /\ buffer_lock = NoThread
    /\ frame_count = 0
    /\ pc = [t \in Threads |-> "idle"]
    /\ local = [t \in Threads |-> NoLocals]
    /\ history = << >>
    /\ log_partial = FALSE
    /\ compacted_log = EmptyOutput
    /\ corrected_log = EmptyOutput
    /\ requests = 0

PassIdle ==
    /\ call = Idle
    /\ compacted = << >>
    /\ words = << >>
    /\ corrected = << >>
    /\ raw = << >>
    /\ matched = << >>
    /\ top_level = JArray
    /\ raised = ""
    /\ answers = << >>
    /\ gemini = NoGemini
    /\ response = NoResponse
    /\ frames = {}
    /\ annotated = {}
    /\ annotated_count = 0
    /\ buffer = << >>
    /\ server_log = << >>
    /\ request = NoRequest
    /\ returned_rows = << >>
    /\ other = << >>
    /\ distance = 0

-----------------------------------------------------------------------------
(* DetectionBuffer: the deque, its lock and the persisted detection log.   *)

\* deque(maxlen=MAX_ENTRIES).append(entry) without the eviction
deque_append_Unbounded(buf, entry) == Append(buf, entry)

\* deque(maxlen=MAX_ENTRIES).append(entry) discarding the new entry when full
deque_append_DropNewest(buf, entry) ==
    IF Len(buf) >= MAX_ENTRIES THEN buf ELSE Append(buf, entry)

\* deque(maxlen=MAX_ENTRIES).append(entry): a full deque drops its oldest
\* entry; a deque of capacity 0 stays empty
deque_append(buf, entry) ==
    IF MAX_ENTRIES = 0 THEN << >>
    ELSE IF Len(buf) >= MAX_ENTRIES THEN Append(Tail(buf), entry)
    ELSE Append(buf, entry)

RECURSIVE deque_extend(_, _)
\* `for entry in data: _detections_buffer.append(entry)`
deque_extend(buf, data) ==
    IF data = << >> THEN buf
    ELSE deque_extend(deque_append(buf, Head(data)), Tail(data))

\* open(DETECTIONS_LOG, 'w'): the file is truncated
open_w(file) == << >>

\* open(path, 'w') of an output file: it is truncated to no characters
open_w_output(file) == OutputFile(<< >>, 0, FALSE)

\* the buffered document is written from the start of the file when the
\* file is closed; characters another writer has put beyond its end since
\* the file was opened stay in the file
close_output(file, rows, size) ==
    OutputFile(rows, IF file.size > size THEN file.size ELSE size, file.size <= size)

RECURSIVE CompactedText(_)
\* the number of characters json.dump(compacted, f, indent=2) and '\n' write
CompactedText(ranges) ==
    IF ranges = << >> THEN 3
    ELSE 47 + Len(Head(ranges).frameRange) + Len(Head(ranges).label.s)
            + (IF Len(ranges) = 1 THEN 3 ELSE CompactedText(Tail(ranges)))

RECURSIVE CorrectedText(_)
\* the number of characters json.dump(corrected, f, indent=2) and '\n' write
CorrectedText(out) ==
    IF out = << >> THEN 3
    ELSE 43 + Len(Head(out).frame) + Len(Head(out).string)
            + (IF Len(out) = 1 THEN 3 ELSE CorrectedText(Tail(out)))

\* _write_detections with the file opened for appending: only the newest
\* entry is added to what the file holds
write_detections_Incremental(file, buf) ==
    IF buf = << >> THEN file ELSE Append(file, buf[Len(buf)])

\* _write_detections(): the file is opened with 'w' and every row of
\* list(_detections_buffer) is written, in order
_write_detections(file, buf) == buf

\* history keeps the last MAX_ENTRIES + 1 entries appended since the buffer
\* was last cleared
Remember(h, entry) ==
    IF Len(h) > MAX_ENTRIES THEN Append(Tail(h), entry) ELSE Append(h, entry)

RECURSIVE RememberAll(_, _)
RememberAll(h, data) ==
    IF data = << >> THEN h ELSE RememberAll(Remember(h, Head(data)), Tail(data))

-----------------------------------------------------------------------------
(* The stand-alone detection server, src/server.py: /detect-frame and      *)
(* /detections.                                                            *)

\* the frame field of a request: absent, empty, not an image, an image
FrameFields == {"missing", "empty", "invalid", "image"}

\* `limit = int(request.args.get('limit', '4'))`, 4 where int() raises
LimitOf(arg) ==
    IF arg = NoLimit THEN DEFAULT_LIMIT
    ELSE IF ParseInt(arg) = << >> THEN DEFAULT_LIMIT
    ELSE ParseInt(arg)[1]

\* q[start:] of a Python list
SliceFrom(q, start) ==
    LET from == IF start < 0
                THEN (IF Len(q) + start < 0 THEN 0 ELSE Len(q) + start)
                ELSE (IF start > Len(q) THEN Len(q) ELSE start)
    IN  SubSeq(q, from + 1, Len(q))

\* detections, src/server.py lines 102-109: the rows returned
detections(buf, arg) == SliceFrom(buf, 0 - LimitOf(arg))

\* the label detect_frame logs: 'sp' is renamed 'G'
LoggedLabel(lb) == IF Lower(lb) = << "s", "p" >> THEN << "G" >> ELSE lb

\* detect_frame appending the entry before the image is decoded
detect_frame_AppendFirst(buf, log, req) ==
    IF ~req.model THEN [buffer |-> buf, log |-> log, status |-> 500, error |-> "model not loaded"]
    ELSE IF req.frame = "missing"
         THEN [buffer |-> buf, log |-> log, status |-> 400, error |-> "frame missing"]
    ELSE IF req.frame = "empty"
         THEN [buffer |-> buf, log |-> log, status |-> 400, error |-> "empty frame"]
    ELSE LET entry == Entry(IF buf # << >> THEN buf[Len(buf)].frame_count.n + 1 ELSE 1,
                            LoggedLabel(req.label))
             appended == deque_append(buf, entry)
         IN  IF req.frame = "invalid"
             THEN [buffer |-> appended, log |-> log, status |-> 400, error |-> "invalid image"]
             ELSE [buffer |-> appended, log |-> appended, status |-> 200, error |-> ""]

\* detect_frame, src/server.py lines 48-99: the buffer, the rows of the log
\* and the response it leaves
detect_frame(buf, log, req) ==
    IF ~req.model THEN [buffer |-> buf, log |-> log, status |-> 500, error |-> "model not loaded"]
    ELSE IF req.frame = "missing"
         THEN [buffer |-> buf, log |-> log, status |-> 400, error |-> "frame missing"]
    ELSE IF req.frame = "empty"
         THEN [buffer |-> buf, log |-> log, status |-> 400, error |-> "empty frame"]
    ELSE IF req.frame = "invalid"
         THEN [buffer |-> buf, log |-> log, status |-> 400, error |-> "invalid image"]
    ELSE LET entry == Entry(IF buf # << >> THEN buf[Len(buf)].frame_count.n + 1 ELSE 1,
                            LoggedLabel(req.label))
             appended == deque_append(buf, entry)
         IN  [buffer |-> appended, log |-> appended, status |-> 200, error |-> ""]

\* the label of model.predict's result with no box
NoBox == << "n", "o", "n", "e" >>

\* receive_frame of src/python/server.py, lines 158-209, served alone: the
\* frame counter, the buffer, the rows of the log and the response status.
\* The checks of lines 166-190 return before the counter is touched; a
\* decoded frame is counted, and logged when the model reports a box
receive_frame(count, buf, log, req) ==
    IF req.frame # "image"
    THEN [frame_count |-> count, buffer |-> buf, log |-> log, status |-> 400]
    ELSE IF ~req.model \/ req.label = NoBox
         THEN [frame_count |-> count + 1, buffer |-> buf, log |-> log, status |-> 200]
    ELSE LET appended == deque_append(buf, Entry(count + 1, req.label))
         IN  [frame_count |-> count + 1, buffer |-> appended,
              log |-> IF (count + 1) % WRITE_EVERY = 0
                      THEN _write_detections(log, appended) ELSE log,
              status |-> 200]

-----------------------------------------------------------------------------
\* labels the classifier reports
ClassifierLabels == {<< "a" >>}

\* payloads of POST /detections/load: the prefixes of one list longer than
\* the buffer
LoadList == [k \in 1..(MAX_ENTRIES + 1) |-> Entry(k, << "t" >>)]
LoadPayloads == {SubSeq(LoadList, 1, k) : k \in 0..(MAX_ENTRIES + 1)}

\* what the steps of the buffer's handlers leave alone
startUnchanged == << compacted_log, corrected_log, passVars >>

\* a request is accepted
Accept == requests < MaxRequests /\ requests' = requests + 1

passUnchanged == << compacted_log, corrected_log, requests, passVars >>

\* receive_frame, lines 766-805: a request with no frame, empty data or an
\* undecodable image is answered 400; otherwise the frame is saved and the
\* global counter incremented
ReceiveFrame(t) ==
    /\ pc[t] = "idle"
    /\ \/ UNCHANGED << frame_count, pc, local, requests >>
       \/ /\ Accept
          /\ frame_count' = frame_count + 1
          /\ local' = [local EXCEPT ![t].frame_idx = frame_count + 1]
          /\ pc' = [pc EXCEPT ![t] = "run_detection"]
    /\ UNCHANGED << detections_buffer, buffer_lock, detections_log, log_partial,
                    history, startUnchanged >>

\* _run_detection: model.predict, then the entry is built from the global
\* frame_count as it is now; with no model, or with no box (LOG_EMPTY being
\* off unless configured), nothing is logged
RunDetection(t) ==
    /\ pc[t] = "run_detection"
    /\ \/ \E lb \in ClassifierLabels :
             /\ local' = [local EXCEPT ![t].entry = Entry(frame_count, lb)]
             /\ pc' = [pc EXCEPT ![t] = "log_acquire"]
       \/ /\ pc' = [pc EXCEPT ![t] = "idle"]
          /\ local' = [local EXCEPT ![t] = NoLocals]
    /\ UNCHANGED << detections_buffer, buffer_lock, detections_log, log_partial, frame_count,
                    history, passUnchanged >>

\* _log_detection: `with _buffer_lock:`
LogAcquire(t) ==
    /\ pc[t] = "log_acquire"
    /\ buffer_lock = NoThread
    /\ buffer_lock' = t
    /\ pc' = [pc EXCEPT ![t] = "log_append"]
    /\ UNCHANGED << detections_buffer, detections_log, log_partial, frame_count, local, history,
                    passUnchanged >>

\* _log_detection: `_detections_buffer.append(entry)`
LogAppend(t) ==
    /\ pc[t] = "log_append"
    /\ detections_buffer' = deque_append(detections_buffer, local[t].entry)
    /\ history' = Remember(history, local[t].entry)
    /\ pc' = [pc EXCEPT ![t] = "log_write"]
    /\ UNCHANGED << buffer_lock, detections_log, log_partial, frame_count, local, passUnchanged >>

\* _log_detection: `if entry['frame_count'] % WRITE_EVERY == 0:` the file is
\* opened by _write_detections(); otherwise the lock is released
LogWrite(t) ==
    /\ pc[t] = "log_write"
    /\ IF local[t].entry.frame_count.n % WRITE_EVERY = 0
       THEN /\ detections_log' = open_w(detections_log)
            /\ log_partial' = TRUE
            /\ pc' = [pc EXCEPT ![t] = "log_close"]
            /\ UNCHANGED << buffer_lock, local >>
       ELSE /\ buffer_lock' = NoThread
            /\ pc' = [pc EXCEPT ![t] = "idle"]
            /\ local' = [local EXCEPT ![t] = NoLocals]
            /\ UNCHANGED << detections_log, log_partial >>
    /\ UNCHANGED << detections_buffer, frame_count, history, passUnchanged >>

\* _log_detection: _write_detections() writes the rows and closes the file;
\* the lock is released
LogClose(t) ==
    /\ pc[t] = "log_close"
    /\ detections_log' = _write_detections(detections_log, detections_buffer)
    /\ log_partial' = FALSE
    /\ buffer_lock' = NoThread
    /\ pc' = [pc EXCEPT ![t] = "idle"]
    /\ local' = [local EXCEPT ![t] = NoLocals]
    /\ UNCHANGED << detections_buffer, frame_count, history, passUnchanged >>

\* detections_load: a payload that is not a JSON array is answered 400
LoadRejected(t) ==
    /\ pc[t] = "idle"
    /\ UNCHANGED vars

\* detections_load, line 877: the 'loaded' count of the response
LoadedCount(data) == Len(data)

\* detections_load: `with _buffer_lock:` for a payload that is an array
LoadAcquire(t) ==
    /\ pc[t] = "idle"
    /\ buffer_lock = NoThread
    /\ Accept
    /\ \E data \in LoadPayloads : local' = [local EXCEPT ![t].data = data]
    /\ buffer_lock' = t
    /\ pc' = [pc EXCEPT ![t] = "load_body"]
    /\ UNCHANGED << detections_buffer, detections_log, log_partial, frame_count, history,
                    startUnchanged >>

\* detections_load: clear, append every entry; _write_detections() opens
\* the file
LoadBody(t) ==
    /\ pc[t] = "load_body"
    /\ detections_buffer' = deque_extend(<< >>, local[t].data)
    /\ history' = RememberAll(<< >>, local[t].data)
    /\ detections_log' = open_w(detections_log)
    /\ log_partial' = TRUE
    /\ pc' = [pc EXCEPT ![t] = "load_close"]
    /\ UNCHANGED << buffer_lock, frame_count, local, passUnchanged >>

\* detections_load: _write_detections() writes the rows and closes the file;
\* the lock is released
LoadClose(t) ==
    /\ pc[t] = "load_close"
    /\ detections_log' = _write_detections(detections_log, detections_buffer)
    /\ log_partial' = FALSE
    /\ buffer_lock' = NoThread
    /\ pc' = [pc EXCEPT ![t] = "idle"]
    /\ local' = [local EXCEPT ![t] = NoLocals]
    /\ UNCHANGED << detections_buffer, frame_count, history, passUnchanged >>

\* detections_clear: `with _buffer_lock:`
ClearAcquire(t) ==
    /\ pc[t] = "idle"
    /\ buffer_lock = NoThread
    /\ Accept
    /\ buffer_lock' = t
    /\ pc' = [pc EXCEPT ![t] = "clear_body"]
    /\ UNCHANGED << detections_buffer, detections_log, log_partial, frame_count, local, history,
                    startUnchanged >>

\* detections_clear: clear; _write_detections() opens the file
ClearBody(t) ==
    /\ pc[t] = "clear_body"
    /\ detections_buffer' = << >>
    /\ history' = << >>
    /\ detections_log' = open_w(detections_log)
    /\ log_partial' = TRUE
    /\ pc' = [pc EXCEPT ![t] = "clear_close"]
    /\ UNCHANGED << buffer_lock, frame_count, local, passUnchanged >>

\* detections_clear: _write_detections() writes the rows and closes the
\* file; the lock is released
ClearClose(t) ==
    /\ pc[t] = "clear_close"
    /\ detections_log' = _write_detections(detections_log, detections_buffer)
    /\ log_partial' = FALSE
    /\ buffer_lock' = NoThread
    /\ pc' = [pc EXCEPT ![t] = "clear_compacted"]
    /\ UNCHANGED << detections_buffer, frame_count, local, history, passUnchanged >>

\* detections_clear, lines 891-893: compacted_path.write_text('[]\n') opens
\* compactedLog.json, which empties it
ClearCompacted(t) ==
    /\ pc[t] = "clear_compacted"
    /\ compacted_log' = open_w_output(compacted_log)
    /\ pc' = [pc EXCEPT ![t] = "clear_compacted_close"]
    /\ UNCHANGED << bufferState, local, corrected_log, passVars >>

\* detections_clear: write_text writes '[]\n' and closes the file
ClearCompactedClose(t) ==
    /\ pc[t] = "clear_compacted_close"
    /\ compacted_log' = close_output(compacted_log, << >>, 3)
    /\ pc' = [pc EXCEPT ![t] = "clear_corrected"]
    /\ UNCHANGED << bufferState, local, corrected_log, passVars >>

\* detections_clear, lines 897-898: CORRECTED_LOG.write_text('[]\n') opens
\* the file
ClearCorrected(t) ==
    /\ pc[t] = "clear_corrected"
    /\ corrected_log' = open_w_output(corrected_log)
    /\ pc' = [pc EXCEPT ![t] = "clear_corrected_close"]
    /\ UNCHANGED << bufferState, local, compacted_log, passVars >>

\* detections_clear: write_text writes '[]\n' and closes the file; 200
ClearCorrectedClose(t) ==
    /\ pc[t] = "clear_corrected_close"
    /\ corrected_log' = close_output(corrected_log, << >>, 3)
    /\ pc' = [pc EXCEPT ![t] = "idle"]
    /\ UNCHANGED << bufferState, local, compacted_log, passVars >>

\* video_process, lines 913-936: the upload is accepted and the video opened;
\* `with _buffer_lock:` before the clear
VideoClearAcquire(t) ==
    /\ pc[t] = "idle"
    /\ buffer_lock = NoThread
    /\ Accept
    /\ buffer_lock' = t
    /\ pc' = [pc EXCEPT ![t] = "video_clear"]
    /\ UNCHANGED << detections_buffer, detections_log, log_partial, frame_count, local, history,
                    startUnchanged >>

\* video_process: `_detections_buffer.clear()`, release; frame_idx = 0
VideoClear(t) ==
    /\ pc[t] = "video_clear"
    /\ detections_buffer' = << >>
    /\ history' = << >>
    /\ buffer_lock' = NoThread
    /\ local' = [local EXCEPT ![t].frame_idx = 0]
    /\ pc' = [pc EXCEPT ![t] = "video_loop"]
    /\ UNCHANGED << detections_log, log_partial, frame_count, passUnchanged >>

\* video_process: one turn of `while True`: the video ends, or frame_idx is
\* incremented and the frame classified (an entry, or none to log)
VideoFrame(t) ==
    /\ pc[t] = "video_loop"
    /\ \/ /\ pc' = [pc EXCEPT ![t] = "video_write_acquire"]
          /\ UNCHANGED local
       \/ /\ local[t].frame_idx < MaxVideoFrames
          /\ \/ \E lb \in ClassifierLabels :
                   /\ local' = [local EXCEPT
                                   ![t].frame_idx = @ + 1,
                                   ![t].entry = Entry(local[t].frame_idx + 1, lb)]
                   /\ pc' = [pc EXCEPT ![t] = "video_append_acquire"]
             \/ /\ local' = [local EXCEPT ![t].frame_idx = @ + 1]
                /\ UNCHANGED pc
    /\ UNCHANGED << detections_buffer, buffer_lock, detections_log, log_partial, frame_count,
                    history, passUnchanged >>

\* video_process: `with _buffer_lock:` before the append
VideoAppendAcquire(t) ==
    /\ pc[t] = "video_append_acquire"
    /\ buffer_lock = NoThread
    /\ buffer_lock' = t
    /\ pc' = [pc EXCEPT ![t] = "video_append"]
    /\ UNCHANGED << detections_buffer, detections_log, log_partial, frame_count, local, history,
                    passUnchanged >>

\* video_process: `_detections_buffer.append(entry)`, release
VideoAppend(t) ==
    /\ pc[t] = "video_append"
    /\ detections_buffer' = deque_append(detections_buffer, local[t].entry)
    /\ history' = Remember(history, local[t].entry)
    /\ buffer_lock' = NoThread
    /\ local' = [local EXCEPT ![t].entry = OtherRow]
    /\ pc' = [pc EXCEPT ![t] = "video_loop"]
    /\ UNCHANGED << detections_log, log_partial, frame_count, passUnchanged >>

\* video_process: `with _buffer_lock:` before the write
VideoWriteAcquire(t) ==
    /\ pc[t] = "video_write_acquire"
    /\ buffer_lock = NoThread
    /\ buffer_lock' = t
    /\ pc' = [pc EXCEPT ![t] = "video_write"]
    /\ UNCHANGED << detections_buffer, detections_log, log_partial, frame_count, local, history,
                    passUnchanged >>

\* video_process: _write_detections() opens the file
VideoWrite(t) ==
    /\ pc[t] = "video_write"
    /\ detections_log' = open_w(detections_log)
    /\ log_partial' = TRUE
    /\ pc' = [pc EXCEPT ![t] = "video_close"]
    /\ UNCHANGED << detections_buffer, buffer_lock, frame_count, local, history,
                    passUnchanged >>

\* video_process: _write_detections() writes the rows and closes the file;
\* the lock is released; line 1000 calls compact_detection_ranges
VideoClose(t) ==
    /\ pc[t] = "video_close"
    /\ detections_log' = _write_detections(detections_log, detections_buffer)
    /\ log_partial' = FALSE
    /\ buffer_lock' = NoThread
    /\ local' = [local EXCEPT ![t].fn = "video_compact"]
    /\ pc' = [pc EXCEPT ![t] = "compact_read"]
    /\ UNCHANGED << detections_buffer, frame_count, history, passUnchanged >>

\* GET /logs/compacted: compact_detection_ranges(DETECTIONS_LOG)
LogsCompacted(t) ==
    /\ pc[t] = "idle"
    /\ Accept
    /\ local' = [local EXCEPT ![t].fn = "logs_compacted"]
    /\ pc' = [pc EXCEPT ![t] = "compact_read"]
    /\ UNCHANGED << detections_buffer, buffer_lock, detections_log, log_partial,
                    frame_count, history, compacted_log, corrected_log, passVars >>

\* GET /logs/corrected: generate_corrected_log(DETECTIONS_LOG), which starts
\* with compact_detection_ranges
LogsCorrected(t) ==
    /\ pc[t] = "idle"
    /\ Accept
    /\ local' = [local EXCEPT ![t].fn = "logs_corrected"]
    /\ pc' = [pc EXCEPT ![t] = "compact_read"]
    /\ UNCHANGED << detections_buffer, buffer_lock, detections_log, log_partial,
                    frame_count, history, compacted_log, corrected_log, passVars >>

\* what follows the return of compact_detection_ranges with the value ranges:
\* the handler of /logs/compacted answers; video_process goes on to line 1001,
\* generate_corrected_log, which compacts again; generate_corrected_log
\* segments and corrects, and is about to open CORRECTED_LOG
CompactReturns(t, ranges) ==
    CASE local[t].fn = "logs_compacted" ->
            /\ local' = [local EXCEPT ![t] = NoLocals]
            /\ pc' = [pc EXCEPT ![t] = "idle"]
      [] local[t].fn = "video_compact" ->
            /\ local' = [local EXCEPT ![t].fn = "video_correct", ![t].ranges = << >>]
            /\ pc' = [pc EXCEPT ![t] = "compact_read"]
      [] OTHER ->
            /\ \E c \in CorrectedFrom(_extract_words_from_compacted(ranges)) :
                  local' = [local EXCEPT ![t].out = c, ![t].ranges = << >>]
            /\ pc' = [pc EXCEPT ![t] = "corrected_open"]

\* compact_detection_ranges, lines 343-391: the file is read with no lock
\* held; a file that json.load cannot parse makes the function return []
\* at once; otherwise the rows are compacted
CompactRead(t) ==
    /\ pc[t] = "compact_read"
    /\ IF log_partial
       THEN CompactReturns(t, << >>)
       ELSE /\ local' = [local EXCEPT
                           ![t].ranges = compact_detection_ranges(detections_log)]
            /\ pc' = [pc EXCEPT ![t] = "compact_open"]
    /\ UNCHANGED << bufferState, compacted_log, corrected_log, passVars >>

\* compact_detection_ranges, line 403: open(output_path, 'w')
CompactOpen(t) ==
    /\ pc[t] = "compact_open"
    /\ compacted_log' = open_w_output(compacted_log)
    /\ pc' = [pc EXCEPT ![t] = "compact_close"]
    /\ UNCHANGED << bufferState, local, corrected_log, passVars >>

\* compact_detection_ranges, lines 404-409: json.dump, the file is closed,
\* the ranges are returned
CompactClose(t) ==
    /\ pc[t] = "compact_close"
    /\ compacted_log' = close_output(compacted_log, local[t].ranges,
                                     CompactedText(local[t].ranges))
    /\ CompactReturns(t, local[t].ranges)
    /\ UNCHANGED << bufferState, corrected_log, passVars >>

\* generate_corrected_log, line 613: open(output_path, 'w')
CorrectedOpen(t) ==
    /\ pc[t] = "corrected_open"
    /\ corrected_log' = open_w_output(corrected_log)
    /\ pc' = [pc EXCEPT ![t] = "corrected_close"]
    /\ UNCHANGED << bufferState, local, compacted_log, passVars >>

\* generate_corrected_log, lines 614-619: json.dump, the file is closed, the
\* list is returned: to the handler of /logs/corrected, or to video_process
CorrectedClose(t) ==
    /\ pc[t] = "corrected_close"
    /\ corrected_log' = close_output(corrected_log, local[t].out,
                                     CorrectedText(local[t].out))
    /\ IF local[t].fn = "video_correct"
       THEN /\ local' = [local EXCEPT ![t].out = << >>]
            /\ pc' = [pc EXCEPT ![t] = "video_count"]
       ELSE /\ local' = [local EXCEPT ![t] = NoLocals]
            /\ pc' = [pc EXCEPT ![t] = "idle"]
    /\ UNCHANGED << bufferState, compacted_log, passVars >>

\* video_process, line 1007: `len(list(_detections_buffer))` for the response,
\* read outside any `with _buffer_lock`
VideoCount(t) ==
    /\ pc[t] = "video_count"
    /\ local' = [local EXCEPT ![t] = NoLocals]
    /\ pc' = [pc EXCEPT ![t] = "idle"]
    /\ UNCHANGED << detections_buffer, buffer_lock, detections_log, log_partial, frame_count,
                    history, passUnchanged >>

Init ==
    /\ BufferInit
    /\ PassIdle
    /\ detections_log = << >>

Next ==
    \E t \in Threads :
        \/ ReceiveFrame(t) \/ RunDetection(t)
        \/ LogAcquire(t) \/ LogAppend(t) \/ LogWrite(t) \/ LogClose(t)
        \/ LoadRejected(t) \/ LoadAcquire(t) \/ LoadBody(t) \/ LoadClose(t)
        \/ ClearAcquire(t) \/ ClearBody(t) \/ ClearClose(t)
        \/ ClearCompacted(t) \/ ClearCompactedClose(t)
        \/ ClearCorrected(t) \/ ClearCorrectedClose(t)
        \/ VideoClearAcquire(t) \/ VideoClear(t) \/ VideoFrame(t)
        \/ VideoAppendAcquire(t) \/ VideoAppend(t)
        \/ VideoWriteAcquire(t) \/ VideoWrite(t) \/ VideoClose(t)
        \/ LogsCompacted(t) \/ LogsCorrected(t)
        \/ CompactRead(t) \/ CompactOpen(t) \/ CompactClose(t)
        \/ CorrectedOpen(t) \/ CorrectedClose(t)
        \/ VideoCount(t)

Spec == Init /\ [][Next]_vars

-----------------------------------------------------------------------------
(* Reconstruction passes applied to given inputs.                          *)

\* rows a detection log can hold: entries as the servers write them, the
\* array encoding of realtime_detect.py, and rows /detections/load accepts
DetectionRows ==
    { Entry(1, << "a" >>), Entry(2, << "a" >>),
      Entry(0, << "t" >>), Entry(2, << "t" >>),
      Entry(3, << "s", "p" >>),
      Entry(1, << >>),
      ListRow(<< JInt(0), JInt(1), JStr(<< "a" >>) >>),
      DictRow(JInt(2), JNull, JNull),
      DictRow(JNull, JInt(1), JStr(<< "t" >>)),
      DictRow(JStr(<< "x" >>), JNull, JStr(<< "a" >>)),
      DictRow(JInt(2), JNull, JInt(5)),
      OtherRow }

\* spec.md section 8: (1,h) (2,h) (3,e) (4,l) (5,l) (6,o) (7,sp) (8,h) (9,i)
HelloDetections ==
    << Entry(1, << "h" >>), Entry(2, << "h" >>), Entry(3, << "e" >>),
       Entry(4, << "l" >>), Entry(5, << "l" >>), Entry(6, << "o" >>),
       Entry(7, << "s", "p" >>), Entry(8, << "h" >>), Entry(9, << "i" >>) >>

DetectionLogs == SeqsUpTo(DetectionRows, MaxLen) \cup {HelloDetections}

\* entries a compacted list can hold: ranges as compaction writes them (a
\* negative frame included) and entries with a missing label or frameRange
CompactedEntries ==
    { RangeEntry(1, 1, JStr(<< "a" >>)),
      RangeEntry(2, 3, JStr(<< "t" >>)),
      RangeEntry(4, 4, JStr(<< "s", "p" >>)),
      RangeEntry(5, 5, JStr(<< "n", "o", "n", "e" >>)),
      RangeEntry(6, 6, JStr(<< >>)),
      RangeEntry(7, 7, JNull),
      RangeEntry(-1, 2, JStr(<< "a" >>)),
      RangeEntry(8, 8, JInt(5)),
      [frameRange |-> << >>, label |-> JStr(<< "t" >>)] }

CompactedLists == SeqsUpTo(CompactedEntries, MaxRanges)

RawStrings == SeqsUpTo({"c", "a", "t", "q", "C"}, MaxRawLen)

\* the strings _levenshtein is applied to
EditStrings == SeqsUpTo({"a", "b"}, MaxRawLen)

\* buffers of src/server.py: up to MAX_ENTRIES entries numbered as
\* detect_frame numbers them, from 1 or, after an eviction, from 2
ServerBuffers ==
    {[k \in 1..n |-> Entry(first + k - 1, << "a" >>)] :
        n \in 0..MAX_ENTRIES, first \in 1..2}

\* the limit parameter of GET /detections: absent, integers, not an integer
LimitArgs ==
    { NoLimit, << "0" >>, << "1" >>, << "2" >>, << "5" >>, << "-", "1" >>,
      << "-", "5" >>, << "x" >> }

\* labels model.predict reports to detect_frame; 'none' stands for no box
PredictedLabels == { << "a" >>, << "s", "p" >>, << "n", "o", "n", "e" >> }

\* entries of CorrectedLog.json: two words whose frame ranges share frame 2,
\* an entry with no text and two whose ranges int() cannot read
CorrectedEntries ==
    { [frame |-> << "1", "-", "2" >>, string |-> << "a", "t" >>],
      [frame |-> << "2", "-", "3" >>, string |-> << "i", "t" >>],
      [frame |-> << "3", "-", "3" >>, string |-> << >>],
      [frame |-> << "-", "1", "-", "2" >>, string |-> << "t", "o" >>],
      [frame |-> << "2" >>, string |-> << "t", "o" >>] }
MaxWords == 2
CorrectedLogs == SeqsUpTo(CorrectedEntries, MaxWords)

\* files of FRAMES_DIR: frames 1 and 2, and two files that both carry
\* number 3, one of them unreadable
FrameFiles ==
    { FrameFile("frame_00001_a.jpg", 1, TRUE),
      FrameFile("frame_00002_a.jpg", 2, TRUE),
      FrameFile("frame_00003_a.jpg", 3, FALSE),
      FrameFile("frame_00003_b.jpg", 3, TRUE) }

\* letters sent to the oracles, and what an oracle answers
OracleLetters == { << "c", "q", "t" >>, << "c", "t" >>, << "q", "q", "q" >> }
OracleAnswers ==
    { NoAnswer, << << "c", "a", "t" >> >>, << << "c", "o", "t" >> >>,
      << << "C", "a", "t" >> >> }

\* the text of the payload of POST /analyze ('' when the key is missing)
AnalyzeTexts ==
    { << >>, << " " >>, << "c", "t" >>, << " ", "c", "t", "\n" >>, << "h", "e", "l", "o" >> }

\* what json.load can make of a detection log that is not an array of rows
LogDocuments ==
    { Unparseable, JNull, JInt(0), JInt(5), JBool(TRUE), JBool(FALSE),
      JStr(<< "a", "b" >>), JObject(<< << "a" >> >>) }

PassInit ==
    /\ BufferInit
    /\ words = << >>
    /\ matched = << >>
    /\ raised = ""
    /\ response = NoResponse
    /\ annotated = {}
    /\ annotated_count = 0
    /\ returned_rows = << >>
    /\ distance = 0
    /\ \/ /\ call = [fn |-> "annotate_frames_from_corrected", done |-> FALSE]
          /\ other = << >>
          /\ top_level = JArray
          /\ detections_log = << >>
          /\ compacted = << >>
          /\ raw = << >>
          /\ answers = << >>
          /\ gemini = NoGemini
          /\ corrected \in CorrectedLogs
          /\ frames \in SUBSET FrameFiles
          /\ buffer = << >>
          /\ server_log = << >>
          /\ request = NoRequest
       \/ /\ call = [fn |-> "generate_corrected_log", done |-> FALSE]
          /\ other = << >>
          /\ \/ top_level = JArray /\ detections_log \in DetectionLogs
             \/ top_level \in LogDocuments /\ detections_log = << >>
          /\ compacted = << >>
          /\ raw = << >>
          /\ answers = << >>
          /\ gemini = NoGemini
          /\ corrected = << >>
          /\ frames = {}
          /\ buffer = << >>
          /\ server_log = << >>
          /\ request = NoRequest
       \/ /\ call = [fn |-> "oracle_reconcile", done |-> FALSE]
          /\ other = << >>
          /\ top_level = JArray
          /\ detections_log = << >>
          /\ compacted = << >>
          /\ raw \in OracleLetters
          /\ answers \in OracleAnswers \X OracleAnswers
          /\ gemini = NoGemini
          /\ corrected = << >>
          /\ frames = {}
          /\ buffer = << >>
          /\ server_log = << >>
          /\ request = NoRequest
       \/ /\ call = [fn |-> "analyze", done |-> FALSE]
          /\ other = << >>
          /\ top_level = JArray
          /\ detections_log = << >>
          /\ compacted = << >>
          /\ raw \in AnalyzeTexts
          /\ answers = << >>
          /\ gemini \in [api_key : BOOLEAN, sdk : BOOLEAN, outcome : GeminiOutcomes]
          /\ corrected = << >>
          /\ frames = {}
          /\ buffer = << >>
          /\ server_log = << >>
          /\ request = NoRequest
       \/ /\ call = [fn |-> "_extract_words_from_compacted", done |-> FALSE]
          /\ other = << >>
          /\ top_level = JArray
          /\ detections_log = << >>
          /\ compacted \in CompactedLists
          /\ raw = << >>
          /\ answers = << >>
          /\ gemini = NoGemini
          /\ corrected = << >>
          /\ frames = {}
          /\ buffer = << >>
          /\ server_log = << >>
          /\ request = NoRequest
       \/ /\ call = [fn |-> "_match_word", done |-> FALSE]
          /\ other = << >>
          /\ top_level = JArray
          /\ detections_log = << >>
          /\ compacted = << >>
          /\ raw \in RawStrings
          /\ answers = << >>
          /\ gemini = NoGemini
          /\ corrected = << >>
          /\ frames = {}
          /\ buffer = << >>
          /\ server_log = << >>
          /\ request = NoRequest
       \/ /\ call = [fn |-> "detections", done |-> FALSE]
          /\ other = << >>
          /\ top_level = JArray
          /\ detections_log = << >>
          /\ compacted = << >>
          /\ raw = << >>
          /\ answers = << >>
          /\ gemini = NoGemini
          /\ corrected = << >>
          /\ frames = {}
          /\ buffer \in ServerBuffers
          /\ server_log = buffer
          /\ request \in {[NoRequest EXCEPT !.limit = l] : l \in LimitArgs}
       \/ /\ call = [fn |-> "receive_frame", done |-> FALSE]
          /\ other = << >>
          /\ top_level = JArray
          /\ detections_log = << >>
          /\ compacted = << >>
          /\ raw = << >>
          /\ answers = << >>
          /\ gemini = NoGemini
          /\ corrected = << >>
          /\ frames = {}
          /\ buffer = << >>
          /\ server_log = << >>
          /\ request \in {[NoRequest EXCEPT !.model = m, !.frame = f, !.label = lb] :
                             m \in BOOLEAN, f \in FrameFields, lb \in PredictedLabels}
       \/ /\ call = [fn |-> "detect_frame", done |-> FALSE]
          /\ other = << >>
          /\ top_level = JArray
          /\ detections_log = << >>
          /\ compacted = << >>
          /\ raw = << >>
          /\ answers = << >>
          /\ gemini = NoGemini
          /\ corrected = << >>
          /\ frames = {}
          /\ buffer \in ServerBuffers
          /\ server_log = buffer
          /\ request \in {[NoRequest EXCEPT !.model = m, !.frame = f, !.label = lb] :
                             m \in BOOLEAN, f \in FrameFields, lb \in PredictedLabels}
       \/ /\ call = [fn |-> "_levenshtein", done |-> FALSE]
          /\ top_level = JArray
          /\ detections_log = << >>
          /\ compacted = << >>
          /\ raw \in EditStrings
          /\ other \in EditStrings
          /\ answers = << >>
          /\ gemini = NoGemini
          /\ corrected = << >>
          /\ frames = {}
          /\ buffer = << >>
          /\ server_log = << >>
          /\ request = NoRequest

\* generate_corrected_log(DETECTIONS_LOG): compaction, segmentation, correction
GenerateCorrectedLog ==
    /\ call = [fn |-> "generate_corrected_log", done |-> FALSE]
    /\ IF NotIterable(top_level)
       THEN /\ raised' = "TypeError"
            /\ UNCHANGED << compacted, words, corrected >>
       ELSE \E r \in generate_corrected_log(IterableRows(top_level, detections_log)) :
               /\ compacted' = r.compacted
               /\ words' = r.words
               /\ corrected' = r.corrected
               /\ raised' = r.raised
    /\ call' = [call EXCEPT !.done = TRUE]
    /\ UNCHANGED << bufferVars, detections_log, top_level, raw, matched, oracleVars,
                    annotatorVars, standaloneVars, levenshteinVars >>

\* _extract_words_from_compacted(compacted) on a given list
ExtractWords ==
    /\ call = [fn |-> "_extract_words_from_compacted", done |-> FALSE]
    /\ words' = _extract_words_from_compacted(compacted)
    /\ raised' = IF extract_words_raises(compacted) THEN "TypeError" ELSE ""
    /\ call' = [call EXCEPT !.done = TRUE]
    /\ UNCHANGED << bufferVars, detections_log, top_level, compacted, corrected, raw,
                    matched, oracleVars, annotatorVars, standaloneVars, levenshteinVars >>

\* _match_word(raw) on a given raw string
MatchWord ==
    /\ call = [fn |-> "_match_word", done |-> FALSE]
    /\ \E m \in _match_word(raw, DEFAULT_MAX_DISTANCE) : matched' = m
    /\ call' = [call EXCEPT !.done = TRUE]
    /\ UNCHANGED << bufferVars, detections_log, top_level, compacted, words, corrected,
                    raw, raised, oracleVars, annotatorVars, standaloneVars, levenshteinVars >>

\* the OracleCorrector's policy applied to the two oracles' answers
OracleReconcile ==
    /\ call = [fn |-> "oracle_reconcile", done |-> FALSE]
    /\ matched' = oracle_reconcile(raw, answers[1], answers[2])
    /\ call' = [call EXCEPT !.done = TRUE]
    /\ UNCHANGED << bufferVars, detections_log, top_level, compacted, words, corrected,
                    raw, raised, oracleVars, annotatorVars, standaloneVars, levenshteinVars >>

\* POST /analyze of src/server.py
Analyze ==
    /\ call = [fn |-> "analyze", done |-> FALSE]
    /\ response' = analyze(raw, gemini)
    /\ call' = [call EXCEPT !.done = TRUE]
    /\ UNCHANGED << bufferVars, detections_log, top_level, compacted, words, corrected,
                    raw, matched, raised, answers, gemini, annotatorVars, standaloneVars, levenshteinVars >>

\* POST /frames/annotate: annotate_frames_from_corrected()
AnnotateFrames ==
    /\ call = [fn |-> "annotate_frames_from_corrected", done |-> FALSE]
    /\ \E st \in annotate_frames_from_corrected(frames, corrected) :
          /\ frames' = st.frames
          /\ annotated' = st.annotated
          /\ annotated_count' = st.annotated_count
    /\ call' = [call EXCEPT !.done = TRUE]
    /\ UNCHANGED << bufferVars, detections_log, top_level, compacted, words, corrected,
                    raw, matched, raised, oracleVars, standaloneVars, levenshteinVars >>

\* GET /detections of src/server.py
Detections ==
    /\ call = [fn |-> "detections", done |-> FALSE]
    /\ returned_rows' = detections(buffer, request.limit)
    /\ response' = Response(200, << >>, "")
    /\ call' = [call EXCEPT !.done = TRUE]
    /\ UNCHANGED << bufferVars, detections_log, top_level, compacted, words, corrected,
                    raw, matched, raised, answers, gemini, annotatorVars,
                    buffer, server_log, request, levenshteinVars >>

\* POST /detect-frame of src/server.py
DetectFrame ==
    /\ call = [fn |-> "detect_frame", done |-> FALSE]
    /\ LET r == detect_frame(buffer, server_log, request)
       IN  /\ buffer' = r.buffer
           /\ server_log' = r.log
           /\ response' = Response(r.status, << >>, r.error)
    /\ call' = [call EXCEPT !.done = TRUE]
    /\ UNCHANGED << bufferVars, detections_log, top_level, compacted, words, corrected,
                    raw, matched, raised, answers, gemini, annotatorVars,
                    request, returned_rows, levenshteinVars >>

\* POST /send-frame of src/python/server.py, served alone
SendFrame ==
    /\ call = [fn |-> "receive_frame", done |-> FALSE]
    /\ LET r == receive_frame(frame_count, detections_buffer, detections_log, request)
       IN  /\ frame_count' = r.frame_count
           /\ detections_buffer' = r.buffer
           /\ detections_log' = r.log
           /\ response' = Response(r.status, << >>, "")
    /\ call' = [call EXCEPT !.done = TRUE]
    /\ UNCHANGED << buffer_lock, pc, local, history, log_partial, compacted_log,
                    corrected_log, requests, top_level, compacted, words, corrected,
                    raw, matched, raised, answers, gemini, annotatorVars, standaloneVars, levenshteinVars >>

\* _levenshtein(raw, other) on two given strings
Levenshtein ==
    /\ call = [fn |-> "_levenshtein", done |-> FALSE]
    /\ distance' = _levenshtein(raw, other)
    /\ call' = [call EXCEPT !.done = TRUE]
    /\ UNCHANGED << bufferVars, detections_log, top_level, compacted, words, corrected,
                    raw, matched, raised, oracleVars, annotatorVars, standaloneVars,
                    other >>

PassNext ==
    \/ GenerateCorrectedLog \/ ExtractWords \/ MatchWord
    \/ OracleReconcile \/ Analyze \/ AnnotateFrames
    \/ Detections \/ DetectFrame \/ SendFrame \/ Levenshtein

PassSpec == PassInit /\ [][PassNext]_vars

-----------------------------------------------------------------------------
(* Properties of the detection buffer (Spec).                              *)

\* C1: whatever appends, bulk loads and clears have run, the buffer never
\* holds more than MAX_ENTRIES entries.
C1_BufferWithinCapacity == Len(detections_buffer) <= MAX_ENTRIES

\* C1 witness: a full buffer after one more entry than it holds was appended.
C1_Witness ==
    /\ Len(detections_buffer) = MAX_ENTRIES
    /\ Len(history) = MAX_ENTRIES + 1

\* a step of thread t that leaves position p
Leaves(t, p) == pc[t] = p /\ pc'[t] # p

\* the last n entries of a sequence
LastN(h, n) == SubSeq(h, Len(h) - n + 1, Len(h))

\* C2: an append to a full buffer removes the oldest entry alone, keeps the
\* others in order and puts the new entry last; so the buffer always holds
\* the latest entries appended since it was cleared, up to MAX_ENTRIES of
\* them, and after MAX_ENTRIES + 1 appends only the first one is missing.
C2_AppendEvictsOldestOnly ==
    /\ [][\A t \in Threads :
             ( /\ Leaves(t, "log_append") \/ Leaves(t, "video_append")
               /\ Len(detections_buffer) = MAX_ENTRIES )
             => detections_buffer' = Append(Tail(detections_buffer), local[t].entry)]_vars
    /\ [](detections_buffer = LastN(history, Min2(Len(history), MAX_ENTRIES)))

\* C2 witness: _log_detection has just appended to a full buffer: of the
\* MAX_ENTRIES + 1 entries appended, all but the first are in the buffer.
C2_Witness ==
    /\ \E t \in Threads : pc[t] = "log_write"
    /\ Len(history) = MAX_ENTRIES + 1
    /\ Len(detections_buffer) = MAX_ENTRIES
    /\ detections_buffer = Tail(history)

\* positions whose next step reads or changes _detections_buffer
BufferAccess ==
    {"log_append", "log_write", "load_body", "clear_body", "video_clear",
     "video_append", "video_write", "video_count"}

\* positions at which _write_detections() has opened the detection log
LogOpen == {"log_close", "load_close", "clear_close", "video_close"}

\* C3 (as claimed): every access of a request handler to the buffer happens
\* while that handler holds the buffer lock.
C3_BufferAccessUnderLock ==
    \A t \in Threads : pc[t] \in BufferAccess => buffer_lock = t

\* a step in which thread t completes an append, a bulk load or a clear
CompletesMutation(t) ==
    \/ Leaves(t, "log_write") /\ pc'[t] = "idle"
    \/ Leaves(t, "log_close")
    \/ Leaves(t, "video_append")
    \/ Leaves(t, "load_close")
    \/ Leaves(t, "clear_close")
    \/ Leaves(t, "video_clear")

\* C4 (as claimed): after every completed append, bulk load or clear the
\* detection log holds the full current buffer, in buffer order.
C4_LogEqualsBufferAfterEveryMutation ==
    [][\A t \in Threads :
          CompletesMutation(t) => detections_log' = detections_buffer']_vars

\* a step in which thread t completes an operation that rewrites the log
CompletesWrite(t) ==
    \/ /\ Leaves(t, "log_close")
       /\ local[t].entry.frame_count.n % WRITE_EVERY = 0
    \/ Leaves(t, "load_close")
    \/ Leaves(t, "clear_close")
    \/ Leaves(t, "video_close")

\* a step in which thread t opens the detection log for one of those writes
OpensLog(t) == pc[t] \notin LogOpen /\ pc'[t] \in LogOpen

\* C4 (amended): every write of the detection log replaces it by the full
\* current buffer, in buffer order; that happens at the end of a bulk load,
\* of /detections/clear, of an append by _log_detection whose frame_count is a
\* multiple of WRITE_EVERY, and of video_process's loop; any other step (an
\* append skipped by WRITE_EVERY, video_process's clear and appends) leaves
\* the log as it was.
C4_LogRewrittenWholesaleWhenWritten ==
    [][/\ \A t \in Threads :
             CompletesWrite(t) => detections_log' = detections_buffer'
       /\ (\A t \in Threads : ~CompletesWrite(t) /\ ~OpensLog(t))
             => detections_log' = detections_log]_vars

\* C4 witness: the log rewritten after an append that evicted an entry.
C4_Witness ==
    /\ \A t \in Threads : pc[t] = "idle"
    /\ Len(history) = MAX_ENTRIES + 1
    /\ detections_log = detections_buffer
    /\ detections_log = Tail(history)

\* the rows compact_detection_ranges goes on with: those of the detection
\* log, or none when the log is not a complete document
RowsRead == IF log_partial THEN << >> ELSE detections_log

\* C13: the detections a pass processes are the buffer's contents at the
\* instant it takes them: whenever compact_detection_ranges reads its input,
\* the rows it goes on with are the entries the buffer holds.
C13_PassReadsBufferSnapshot ==
    [][\A t \in Threads :
          Leaves(t, "compact_read") => RowsRead = detections_buffer]_vars

\* C13: a pass about to read the detection log while _write_detections() has
\* it open, the buffer holding entries: json.load fails and the pass goes on
\* with no detections.
C13_TornRead ==
    \E t \in Threads :
        /\ pc[t] = "compact_read"
        /\ log_partial
        /\ detections_buffer # << >>

\* positions at which a handler has compactedLog.json open for writing
CompactedOpen == {"compact_close", "clear_compacted_close"}
\* positions at which a handler has CORRECTED_LOG open for writing
CorrectedWriting == {"corrected_close", "clear_corrected_close"}

\* C14: no two handlers have the same output file open for writing at once,
\* and a file no handler is writing holds one writer's document whole.
C14_OutputWritersExcluded ==
    /\ \A t, u \in Threads :
          (t # u /\ pc[t] \in CompactedOpen) => pc[u] \notin CompactedOpen
    /\ \A t, u \in Threads :
          (t # u /\ pc[t] \in CorrectedWriting) => pc[u] \notin CorrectedWriting
    /\ (\A t \in Threads : pc[t] \notin CompactedOpen) => compacted_log.whole
    /\ (\A t \in Threads : pc[t] \notin CorrectedWriting) => corrected_log.whole

\* C14: compactedLog.json, with no handler writing it, holding the '[]' of
\* one writer followed by the rest of another writer's longer document.
C14_MixedOutput ==
    /\ \A t \in Threads : pc[t] \notin CompactedOpen
    /\ ~compacted_log.whole
    /\ compacted_log.rows = << >>
    /\ compacted_log.size > 3

-----------------------------------------------------------------------------
(* Properties of the reconstruction passes (PassSpec).                     *)

\* the function applied has returned
Returned(fn) == call = [fn |-> fn, done |-> TRUE] /\ raised = ""
\* the function applied was left by an exception
Raised(fn) == call = [fn |-> fn, done |-> TRUE] /\ raised # ""

\* a well-formed detection in either encoding: an integer frame index >= 0
\* and a string label
IsDetection(row) ==
    \/ /\ row.kind = "dict"
       /\ row.frame_count.t = "int" /\ row.frame_count.n >= 0
       /\ row.label.t = "str"
    \/ /\ row.kind = "list"
       /\ Len(row.items) >= 3
       /\ row.items[1].t = "int" /\ row.items[1].n >= 0
       /\ row.items[3].t = "str"

DetectionFrame(row) == IF row.kind = "dict" THEN row.frame_count.n ELSE row.items[1].n
DetectionLabel(row) == IF row.kind = "dict" THEN row.label ELSE row.items[3]

\* C5: for every detection sequence the compactor's output has at most as
\* many ranges as the input has rows, and no two ranges adjacent in the
\* output carry the same label.
C5_CompactedNoLongerNoAdjacentDuplicates ==
    Returned("generate_corrected_log") =>
        /\ Len(compacted) <= Len(detections_log)
        /\ \A k \in 1..(Len(compacted) - 1) :
              compacted[k].label # compacted[k + 1].label

\* C5 witness: three rows, two consecutive ones merged into one of two ranges.
C5_Witness ==
    /\ Returned("generate_corrected_log")
    /\ Len(detections_log) = 3
    /\ \A k \in 1..3 : IsDetection(detections_log[k])
    /\ DetectionLabel(detections_log[1]) = DetectionLabel(detections_log[2])
    /\ Len(compacted) = 2

\* C6 (as claimed): compacting a sequence of detections in which no two
\* consecutive detections share a label yields exactly one one-frame range
\* per detection, in order, with its label and start = end = its frame index.
C6_CompactIsIdentityWithoutAdjacentDuplicates ==
    ( /\ Returned("generate_corrected_log")
      /\ \A k \in 1..Len(detections_log) : IsDetection(detections_log[k])
      /\ \A k \in 1..(Len(detections_log) - 1) :
            DetectionLabel(detections_log[k]) # DetectionLabel(detections_log[k + 1]) )
    => compacted =
          [k \in 1..Len(detections_log) |->
              RangeEntry(DetectionFrame(detections_log[k]),
                         DetectionFrame(detections_log[k]),
                         DetectionLabel(detections_log[k]))]

\* C7: the segmenter never produces a word whose raw text is empty, whatever
\* the compacted list (separator, empty or missing labels included).
C7_NoEmptyRaw ==
    (Returned("_extract_words_from_compacted") \/ Returned("generate_corrected_log"))
    => \A k \in 1..Len(words) : words[k].raw # << >>

\* C7 witness: a list holding an empty label and a missing label, segmented
\* into at least one word.
C7_Witness ==
    /\ Returned("_extract_words_from_compacted")
    /\ \E k \in 1..Len(compacted) : compacted[k].label = JStr(<< >>)
    /\ \E k \in 1..Len(compacted) : compacted[k].label = JNull
    /\ Len(words) >= 1

IsSeparator(e) == e.label.s \in separator_labels

\* The words of a list of ranges u, each range a letter or a separator: one
\* word per maximal run of letters, in order, its raw text the labels of the
\* run joined, its frame range from the first range's start to the last's end.
RangeStart(e) == ParseInt(SplitDash(e.frameRange)[1])[1]
RangeEnd(e) == ParseInt(SplitDash(e.frameRange)[2])[1]

RunStarts(u) ==
    {i \in 1..Len(u) : ~IsSeparator(u[i]) /\ (i = 1 \/ IsSeparator(u[i - 1]))}

RunEnd(u, i) ==
    CHOOSE j \in i..Len(u) :
        /\ \A m \in i..j : ~IsSeparator(u[m])
        /\ (j = Len(u) \/ IsSeparator(u[j + 1]))

WordsOfRuns(u) ==
    LET starts == RunStarts(u)
        nth(k) == CHOOSE i \in starts : Cardinality({x \in starts : x <= i}) = k
    IN  [k \in 1..Cardinality(starts) |->
            LET i == nth(k)
                j == RunEnd(u, i)
            IN  [frameRange |-> FormatRange(RangeStart(u[i]), RangeEnd(u[j])),
                 raw |-> Join([m \in 1..(j - i + 1) |-> u[i + m - 1].label.s])]]

HasText(e) == e.label.s # << >>

\* C8 (as claimed): the words are those of the runs of non-separator ranges,
\* and the stream h,h,e,l,l,o,sp,h,i at frames 1..9 gives "hello" (1-6) then
\* "hi" (8-9).
C8_WordsAreRunsOfNonSeparators ==
    Returned("generate_corrected_log") =>
        /\ words = WordsOfRuns(compacted)
        /\ detections_log = HelloDetections =>
              words = << [frameRange |-> << "1", "-", "6" >>,
                          raw |-> << "h", "e", "l", "l", "o" >>],
                         [frameRange |-> << "8", "-", "9" >>,
                          raw |-> << "h", "i" >>] >>

\* C8 (amended): the words are those of the runs of non-separator ranges
\* with a non-empty label (a range whose label is empty gives neither text
\* nor frames), and the stream h,h,e,l,l,o,sp,h,i at frames 1..9 gives "helo"
\* (1-6), the two l's being one range, then "hi" (8-9).
C8_WordsAreRunsOfLabelledNonSeparators ==
    Returned("generate_corrected_log") =>
        /\ words = WordsOfRuns(SelectSeq(compacted, HasText))
        /\ detections_log = HelloDetections =>
              words = << [frameRange |-> << "1", "-", "6" >>,
                          raw |-> << "h", "e", "l", "o" >>],
                         [frameRange |-> << "8", "-", "9" >>,
                          raw |-> << "h", "i" >>] >>

\* C8 witness: the stream of spec.md section 8 segmented into its two words.
C8_Witness ==
    /\ Returned("generate_corrected_log")
    /\ detections_log = HelloDetections
    /\ Len(words) = 2

\* a range the segmenter reads: a non-empty string label and a frameRange
\* "start-end" of two integers
IsReadableRange(e) ==
    /\ e.label.t = "str" /\ e.label.s # << >>
    /\ Len(SplitDash(e.frameRange)) = 2
    /\ ParseInt(SplitDash(e.frameRange)[1]) # << >>
    /\ ParseInt(SplitDash(e.frameRange)[2]) # << >>

\* C9: a separator ends a word only when one is being accumulated: a list of
\* ranges gives exactly one word per maximal run of letter ranges, so
\* leading, trailing and repeated separators add none, and a list or stream
\* holding only separator labels gives no word.
C9_SeparatorsAddNoWords ==
    /\ ( /\ Returned("_extract_words_from_compacted")
         /\ \A k \in 1..Len(compacted) : IsReadableRange(compacted[k]) )
       => Len(words) = Cardinality(RunStarts(compacted))
    /\ ( /\ Returned("_extract_words_from_compacted") \/ Returned("generate_corrected_log")
         /\ \A k \in 1..Len(compacted) : IsSeparator(compacted[k]) )
       => words = << >>

\* C9 witness: a list that starts with a separator, ends with two separators
\* and holds one word.
C9_Witness ==
    /\ Returned("_extract_words_from_compacted")
    /\ Len(compacted) = 4
    /\ \A k \in 1..4 : IsReadableRange(compacted[k])
    /\ IsSeparator(compacted[1]) /\ ~IsSeparator(compacted[2])
    /\ IsSeparator(compacted[3]) /\ IsSeparator(compacted[4])
    /\ Len(words) = 1

RECURSIVE EditsUpTo(_, _, _)
\* the edit distance of a and b (insertions, deletions, substitutions of one
\* character) when it is at most budget, and budget + 1 otherwise
EditsUpTo(a, b, budget) ==
    IF a = << >> THEN Min2(Len(b), budget + 1)
    ELSE IF b = << >> THEN Min2(Len(a), budget + 1)
    ELSE IF Head(a) = Head(b) THEN EditsUpTo(Tail(a), Tail(b), budget)
    ELSE IF budget = 0 THEN 1
    ELSE 1 + Min2(EditsUpTo(Tail(a), Tail(b), budget - 1),
                  Min2(EditsUpTo(Tail(a), b, budget - 1),
                       EditsUpTo(a, Tail(b), budget - 1)))

\* the least edit distance from s to a word of the lexicon, capped as above
LeastEdits(s, budget) ==
    LET ds == {EditsUpTo(s, w, budget) : w \in COMMON_WORDS}
    IN  CHOOSE d \in ds : \A e \in ds : d <= e

\* C10: when the lowercased raw string is not in the lexicon, the corrector
\* returns a lexicon word at the least edit distance from it if that distance
\* is at most max_distance, and the raw string verbatim otherwise; the result
\* is not empty for a non-empty raw string.
C10_MatchIsNearestOrRaw ==
    (Returned("_match_word") /\ Lower(raw) \notin COMMON_WORDS) =>
        LET least == LeastEdits(Lower(raw), DEFAULT_MAX_DISTANCE)
        IN  /\ least <= DEFAULT_MAX_DISTANCE =>
                  /\ matched \in COMMON_WORDS
                  /\ EditsUpTo(Lower(raw), matched, DEFAULT_MAX_DISTANCE) = least
            /\ least > DEFAULT_MAX_DISTANCE => matched = raw
            /\ raw # << >> => matched # << >>

\* C10 witness: "cqt" corrected to "cat" (distance 1) with "can", "car" and
\* "sat" at distance 2 in the lexicon.
C10_Witness ==
    /\ Returned("_match_word")
    /\ raw = << "c", "q", "t" >>
    /\ matched = << "c", "a", "t" >>

\* C11: when the lowercased raw string is a lexicon word, the corrector
\* returns that word (edit distance 0 from the lowercased raw string) and no
\* other word of the lexicon.
C11_ExactHitReturnedUnchanged ==
    (Returned("_match_word") /\ Lower(raw) \in COMMON_WORDS) =>
        /\ matched = Lower(raw)
        /\ _levenshtein(Lower(raw), matched) = 0

\* C11 witness: "Cat" is returned as the lexicon word "cat", with "can",
\* "car" and "sat" one edit away.
C11_Witness ==
    /\ Returned("_match_word")
    /\ raw = << "C", "a", "t" >>
    /\ matched = << "c", "a", "t" >>

\* C12: the word returned for a raw string is determined by the raw string,
\* the lexicon and the distance bound: no invocation on the same raw string
\* can return another word.
C12_MatchIsDeterministic ==
    Returned("_match_word") =>
        \A m \in _match_word(raw, DEFAULT_MAX_DISTANCE) : m = matched

\* C12: a raw string with several lexicon words tied at the least distance
\* ("ct": "at" and "it" at distance 1) after an invocation returned one of them.
C12_TieReached ==
    /\ Returned("_match_word")
    /\ raw = << "c", "t" >>
    /\ matched = << "a", "t" >>
    /\ << "i", "t" >> \in _match_word(raw, DEFAULT_MAX_DISTANCE)

\* C15: whatever the detection log holds (no JSON, a top-level value that is
\* not an array, records that are not well-formed detections), a pass over it
\* returns a result and is not left by an error; an unreadable log gives the
\* result of an empty one.
C15_MalformedInputNeverAborts ==
    /\ ~Raised("generate_corrected_log")
    /\ ~Raised("_extract_words_from_compacted")
    /\ (Returned("generate_corrected_log") /\ top_level = Unparseable)
          => corrected = << >>

\* C15: the pass left by a TypeError on a log that is an array of records,
\* one of which has a number as its label.
C15_RecordAborts ==
    /\ Raised("generate_corrected_log")
    /\ top_level = JArray
    /\ Len(detections_log) = 1

\* the same detection in the other encoding: the object {frame_count, label,
\* confidence} as the array [frame, confidence, label], and back
OtherEncoding(row) ==
    IF row.kind = "dict"
    THEN ListRow(<< row.frame_count, JInt(1), row.label >>)
    ELSE DictRow(row.items[1], JNull, row.items[3])

\* C16: a detection reads as the same (frame, label) pair in either
\* encoding, for every frame index from 0 on, so a log and its re-encoding
\* compact to the same ranges.
C16_EncodingsReadAlike ==
    ( /\ Returned("generate_corrected_log")
      /\ top_level = JArray
      /\ \A k \in 1..Len(detections_log) : IsDetection(detections_log[k]) )
    => /\ \A k \in 1..Len(detections_log) :
             _extract_frame_label(detections_log[k])
                = _extract_frame_label(OtherEncoding(detections_log[k]))
       /\ compacted =
             compact_detection_ranges(
                 [k \in 1..Len(detections_log) |-> OtherEncoding(detections_log[k])])

\* C16: a log with a detection at frame 0 in the object encoding, compacted
\* to fewer ranges than its re-encoding as arrays.
C16_FrameZeroDiffers ==
    /\ Returned("generate_corrected_log")
    /\ Len(detections_log) = 1
    /\ detections_log[1] = Entry(0, << "t" >>)
    /\ compacted = << >>
    /\ compact_detection_ranges(<< OtherEncoding(detections_log[1]) >>)
          = << RangeEntry(0, 0, JStr(<< "t" >>)) >>

\* C17: when both oracles answer and the answers are equal case-
\* insensitively, the output is that word; otherwise it is the first
\* oracle's answer if there is one, else the second's, else the raw string,
\* whatever the dictionary would make of it.
C17_OraclePrecedence ==
    Returned("oracle_reconcile") =>
        LET first == answers[1]
            second == answers[2]
        IN  IF first # NoAnswer /\ second # NoAnswer
               /\ Lower(first[1]) = Lower(second[1])
            THEN Lower(matched) = Lower(first[1])
            ELSE IF first # NoAnswer THEN matched = first[1]
            ELSE IF second # NoAnswer THEN matched = second[1]
            ELSE matched = raw

\* C17 witness: the oracles disagree ("cot" against "cat") and the first
\* one's answer is the output.
C17_Witness ==
    /\ Returned("oracle_reconcile")
    /\ answers = << << << "c", "o", "t" >> >>, << << "c", "a", "t" >> >> >>
    /\ matched = << "c", "o", "t" >>

\* C18: a request for a correction with letters, the oracle being
\* configured, is answered with output text and not with an error, whatever
\* the oracle call does.
C18_OracleFailureNotPropagated ==
    ( /\ Returned("analyze")
      /\ Strip(raw) # << >>
      /\ gemini.api_key /\ gemini.sdk )
    => /\ response.status = 200
       /\ response.error = ""

\* C18: the oracle call raised and /analyze answered 500.
C18_OracleRaised ==
    /\ Returned("analyze")
    /\ raw = << "h", "e", "l", "o" >>
    /\ gemini = [api_key |-> TRUE, sdk |-> TRUE, outcome |-> "raises"]
    /\ response = Response(500, << >>, "Gemini request failed")

\* the frame numbers the words of the corrected log cover
CoveredFrames ==
    UNION {IF EntryFrames(corrected[k]) = << >> THEN {}
           ELSE EntryFrames(corrected[k])[1]..EntryFrames(corrected[k])[2] :
           k \in 1..Len(corrected)}

\* once the annotator has returned, every covered frame number with a
\* readable stored image has an annotated copy in the output directory
AnnotatedCopies ==
    Returned("annotate_frames_from_corrected") =>
        \A n \in CoveredFrames :
            (\E f \in frames : f.num = n /\ f.readable)
            => (\E g \in annotated : g.num = n /\ g.overlay # << >>)

\* no step changes a stored frame
OriginalsUntouched == [][frames' = frames]_vars

\* the count returned is the number of annotated copies in the output
\* directory
CountIsAnnotatedFrames ==
    Returned("annotate_frames_from_corrected")
    => annotated_count = Cardinality(annotated)

\* C19: the annotator writes an annotated copy for every covered frame
\* number that has a readable stored image, leaves the stored frames
\* untouched, and returns the number of frames it annotated.
C19_AnnotatorContract ==
    /\ [](AnnotatedCopies /\ CountIsAnnotatedFrames)
    /\ OriginalsUntouched

\* C19: the words "at" (frames 1-2) and "it" (frames 2-3) with frame 2
\* stored: one annotated frame, and a count of 2.
C19_FrameCountedTwice ==
    /\ Returned("annotate_frames_from_corrected")
    /\ corrected = << [frame |-> << "1", "-", "2" >>, string |-> << "a", "t" >>],
                      [frame |-> << "2", "-", "3" >>, string |-> << "i", "t" >> ] >>
    /\ frames = {FrameFile("frame_00002_a.jpg", 2, TRUE)}
    /\ annotated = {[FrameFile("frame_00002_a.jpg", 2, TRUE) EXCEPT !.overlay = << "i", "t" >>]}
    /\ annotated_count = 2

\* the label video_process logs for a frame with no hand in it
LOG_EMPTY_LABEL == << "n", "o", "n", "e" >>

IsNoSignal(e) == e.label = JStr(LOG_EMPTY_LABEL)
IsSignal(e) == ~IsNoSignal(e)

\* a no-signal range read as a space
AsSpace(e) == IF IsNoSignal(e) THEN [e EXCEPT !.label = JStr(<< "s", "p" >>)] ELSE e

AllReadable == \A k \in 1..Len(compacted) : IsReadableRange(compacted[k])

\* C20 (as claimed): a "none" range is skipped without closing the word in
\* progress: the words are those of the list with its "none" ranges left out.
C20_NoSignalSkipped ==
    (Returned("_extract_words_from_compacted") /\ AllReadable)
    => words = WordsOfRuns(SelectSeq(compacted, IsSignal))

\* C20 (amended): a "none" range closes the word in progress as a space
\* does: the words are those of the list with each "none" range read as a
\* space, so letters on the two sides of a "none" range are in two words.
C20_NoSignalEndsWord ==
    (Returned("_extract_words_from_compacted") /\ AllReadable)
    => words = WordsOfRuns([k \in 1..Len(compacted) |-> AsSpace(compacted[k])])

\* C20 witness: a, none, t segmented into the words "a" and "t".
C20_Witness ==
    /\ Returned("_extract_words_from_compacted")
    /\ compacted = << RangeEntry(1, 1, JStr(<< "a" >>)),
                      RangeEntry(5, 5, JStr(LOG_EMPTY_LABEL)),
                      RangeEntry(2, 3, JStr(<< "t" >>)) >>
    /\ words = << [frameRange |-> << "1", "-", "1" >>, raw |-> << "a" >>],
                  [frameRange |-> << "2", "-", "3" >>, raw |-> << "t" >>] >>

\* the frame index a row carries: frame_count, or frame where there is no
\* frame_count, of an object; the first item of an array
FrameIndex(row) ==
    IF row.kind = "dict"
    THEN IF row.frame_count.t # "null" THEN row.frame_count ELSE row.frame
    ELSE IF row.kind = "list" /\ Len(row.items) >= 3 THEN row.items[1] ELSE JNull

RowLabel(row) ==
    IF row.kind = "dict" THEN row.label
    ELSE IF row.kind = "list" /\ Len(row.items) >= 3 THEN row.items[3] ELSE JNull

\* a detection with a non-null label and an integer frame index >= 0
HasFrameAndLabel(row) ==
    /\ RowLabel(row).t # "null"
    /\ FrameIndex(row).t = "int" /\ FrameIndex(row).n >= 0

RECURSIVE Collapse(_)
\* a sequence with its consecutive duplicates collapsed
Collapse(q) ==
    IF Len(q) <= 1 THEN q
    ELSE IF q[1] = q[2] THEN Collapse(Tail(q))
    ELSE << q[1] >> \o Collapse(Tail(q))

LabelsOf(rows) == [k \in 1..Len(rows) |-> RowLabel(rows[k])]

Compacted(fn) == call = [fn |-> fn, done |-> TRUE] /\ top_level = JArray

\* C21: the labels of the compacted ranges are the labels of the log's
\* detections with a non-null label and an integer frame index >= 0, frame
\* index 0 included, with consecutive duplicates collapsed.
C21_EveryDetectionInOneRange ==
    Compacted("generate_corrected_log") =>
        [k \in 1..Len(compacted) |-> compacted[k].label]
            = Collapse(LabelsOf(SelectSeq(detections_log, HasFrameAndLabel)))

\* C21: the detection of frame 0 is in no range.
C21_FrameZeroDropped ==
    /\ Compacted("generate_corrected_log")
    /\ detections_log = << Entry(0, << "t" >>), Entry(1, << "a" >>) >>
    /\ compacted = << RangeEntry(1, 1, JStr(<< "a" >>)) >>

\* a row whose label or frame index is null or missing
LacksFrameOrLabel(row) == RowLabel(row).t = "null" \/ FrameIndex(row).t = "null"
CarriesFrameAndLabel(row) == ~LacksFrameOrLabel(row)

\* C22: rows with a null or missing label or frame index have no effect on
\* compaction: the ranges are those of the log with these rows taken out, so
\* a run they interrupt stays one range.
C22_MalformedRowsLeaveRunOpen ==
    Compacted("generate_corrected_log") =>
        compacted = compact_detection_ranges(SelectSeq(detections_log, CarriesFrameAndLabel))

\* C22 witness: (1, a), a row with no label, (2, a) compacted to the single
\* range 1-2 of a.
C22_Witness ==
    /\ Compacted("generate_corrected_log")
    /\ detections_log = << Entry(1, << "a" >>), DictRow(JInt(2), JNull, JNull),
                           Entry(2, << "a" >>) >>
    /\ compacted = << RangeEntry(1, 2, JStr(<< "a" >>)) >>

\* the rows the compactor does not skip: a label and a frame that int() reads
IsConsumed(row) ==
    /\ _extract_frame_label(row)[1].t # "null"
    /\ _extract_frame_label(row)[2].t # "null"
    /\ PyInt(_extract_frame_label(row)[1]) # << >>

ConsumedFrame(row) == PyInt(_extract_frame_label(row)[1])[1]

\* the positions at which a run of same-label rows starts, and the run's end
LabelRunStarts(r) == {i \in 1..Len(r) : i = 1 \/ RowLabel(r[i]) # RowLabel(r[i - 1])}

LabelRunEnd(r, i) ==
    CHOOSE j \in i..Len(r) :
        /\ \A m \in i..j : RowLabel(r[m]) = RowLabel(r[i])
        /\ (j = Len(r) \/ RowLabel(r[j + 1]) # RowLabel(r[i]))

MaxOf(S) == CHOOSE x \in S : \A y \in S : y <= x

\* one range per run: from the frame of the run's first row to the largest
\* frame of the run
RangesOfRuns(r) ==
    LET starts == LabelRunStarts(r)
        nth(k) == CHOOSE i \in starts : Cardinality({x \in starts : x <= i}) = k
    IN  [k \in 1..Cardinality(starts) |->
            LET i == nth(k)
                j == LabelRunEnd(r, i)
            IN  RangeEntry(ConsumedFrame(r[i]),
                           MaxOf({ConsumedFrame(r[m]) : m \in i..j}),
                           RowLabel(r[i]))]

\* C23: each range starts at the frame index of its run's first detection
\* and ends at the largest frame index of the run, a regression included,
\* and every range has start_frame <= end_frame.
C23_RangeEndIsRunMaximum ==
    Compacted("generate_corrected_log") =>
        /\ compacted = RangesOfRuns(SelectSeq(detections_log, IsConsumed))
        /\ \A k \in 1..Len(compacted) :
              RangeStart(compacted[k]) <= RangeEnd(compacted[k])

\* C23 witness: the run a at frames 1, 2, 0 compacted to the range 1-2.
C23_Witness ==
    /\ Compacted("generate_corrected_log")
    /\ detections_log = << Entry(1, << "a" >>), Entry(2, << "a" >>),
                           ListRow(<< JInt(0), JInt(1), JStr(<< "a" >>) >>) >>
    /\ compacted = << RangeEntry(1, 2, JStr(<< "a" >>)) >>

\* a range with a string label, the empty string included, and a frameRange
\* "start-end" of two integers
IsStringRange(e) ==
    /\ e.label.t = "str"
    /\ Len(SplitDash(e.frameRange)) = 2
    /\ ParseInt(SplitDash(e.frameRange)[1]) # << >>
    /\ ParseInt(SplitDash(e.frameRange)[2]) # << >>

AllStringRanges == \A k \in 1..Len(compacted) : IsStringRange(compacted[k])

WordHasText(w) == w.raw # << >>

\* C24 (as claimed): a range whose label is the empty string is a symbol of
\* the word in progress: it adds no text and extends the word's frame range.
C24_EmptyLabelIsSymbol ==
    (Returned("_extract_words_from_compacted") /\ AllStringRanges)
    => words = SelectSeq(WordsOfRuns(compacted), WordHasText)

\* C24 (amended): a range whose label is the empty string is skipped: the
\* words, their text and their frame ranges, are those of the list without
\* such ranges.
C24_EmptyLabelSkipped ==
    (Returned("_extract_words_from_compacted") /\ AllStringRanges)
    => words = WordsOfRuns(SelectSeq(compacted, HasText))

\* C24 witness: a (1-1), t (2-3) and an empty label (6-6) give the word "at"
\* with the frame range 1-3.
C24_Witness ==
    /\ Returned("_extract_words_from_compacted")
    /\ compacted = << RangeEntry(1, 1, JStr(<< "a" >>)),
                      RangeEntry(2, 3, JStr(<< "t" >>)),
                      RangeEntry(6, 6, JStr(<< >>)) >>
    /\ words = << [frameRange |-> << "1", "-", "3" >>, raw |-> << "a", "t" >>] >>

\* every request accepted so far was a frame request
OnlyFrameRequests == frame_count = requests

\* C25: a frame request's detection enters the buffer with the index of the
\* frame the request received, and with an index not below that of the entry
\* before it, also when two requests are served at once.
C25_FrameIndicesMonotonic ==
    [][\A t \in Threads :
          (Leaves(t, "log_append") /\ OnlyFrameRequests)
          => /\ local[t].entry.frame_count.n = local[t].frame_idx
             /\ detections_buffer # << >>
                => detections_buffer[Len(detections_buffer)].frame_count.n
                      <= local[t].entry.frame_count.n]_vars

\* C25: two frame requests served at once: the detection of frame 1 is about
\* to enter the buffer as frame 2.
C25_WrongFrameIndex ==
    \E t \in Threads :
        /\ pc[t] = "log_append"
        /\ local[t].frame_idx = 1
        /\ local[t].entry.frame_count.n = 2

\* two frame requests served at once: frame 2 is in the buffer before frame 1
LaterFrameFirst ==
    /\ OnlyFrameRequests
    /\ detections_buffer = << Entry(2, << "a" >>), Entry(1, << "a" >>) >>

\* the limit of the request, when the parameter is an integer
IntegerLimit == request.limit # NoLimit /\ ParseInt(request.limit) # << >>

AtMost(n, q) == IF n <= 0 THEN << >> ELSE IF n >= Len(q) THEN q ELSE LastN(q, n)

\* C26: GET /detections returns the most recent entries of the buffer, in
\* buffer order, and no more of them than the limit: the integer of the
\* parameter, 0 and negative integers included, and 4 without an integer.
C26_AtMostLimitRows ==
    Returned("detections") =>
        LET limit == IF IntegerLimit THEN ParseInt(request.limit)[1] ELSE DEFAULT_LIMIT
        IN  /\ IntegerLimit => Len(returned_rows) <= (IF limit < 0 THEN 0 ELSE limit)
            /\ returned_rows = AtMost(limit, buffer)

\* C26: limit=0 answered with the whole buffer.
C26_LimitZeroReturnsAll ==
    /\ Returned("detections")
    /\ request.limit = << "0" >>
    /\ Len(buffer) = MAX_ENTRIES
    /\ returned_rows = buffer

\* C27: when /detections/load has written the log, the buffer and the log
\* hold the payload's entries in payload order and nothing else, and the
\* 'loaded' count is the number of entries in the buffer, whatever the
\* payload's length.
C27_LoadReplacesBufferWithPayload ==
    [][\A t \in Threads :
          Leaves(t, "load_close")
          => /\ detections_buffer' = local[t].data
             /\ detections_log' = local[t].data
             /\ LoadedCount(local[t].data) = Len(detections_buffer')]_vars

\* C27: a payload of MAX_ENTRIES + 1 entries has been loaded: the buffer
\* holds MAX_ENTRIES of them, without the first, and 'loaded' is
\* MAX_ENTRIES + 1.
C27_PayloadBeyondCapacity ==
    \E t \in Threads :
        /\ pc[t] = "load_close"
        /\ local[t].data = LoadList
        /\ detections_buffer = Tail(LoadList)
        /\ LoadedCount(local[t].data) = MAX_ENTRIES + 1

\* a request is answered
Answers(fn) == call = [fn |-> fn, done |-> FALSE] /\ call' = [fn |-> fn, done |-> TRUE]

\* the request names a reason for which detect_frame rejects it
RejectedByDetectFrame == ~request.model \/ request.frame # "image"
\* the request names a reason for which receive_frame rejects it
RejectedByReceiveFrame == request.frame # "image"

\* C28: a frame request with no model loaded (/detect-frame), no frame
\* field, empty frame data or an undecodable image is answered with an error
\* and leaves the buffer, the frame counter and the detection log as they
\* were.
C28_RejectedFrameChangesNothing ==
    [][ /\ (Answers("detect_frame") /\ RejectedByDetectFrame)
           => /\ response'.status \in {400, 500}
              /\ UNCHANGED << buffer, server_log >>
        /\ (Answers("receive_frame") /\ RejectedByReceiveFrame)
           => /\ response'.status = 400
              /\ UNCHANGED << detections_buffer, frame_count, detections_log >>
        /\ (Answers("detect_frame") \/ Answers("receive_frame"))
           => (response'.status # 200
               => UNCHANGED << buffer, server_log, detections_buffer, frame_count,
                               detections_log >>) ]_vars

\* C28 witness: /detect-frame has rejected an undecodable image with a
\* model loaded and a non-empty buffer, which is as it was.
C28_Witness ==
    /\ call = [fn |-> "detect_frame", done |-> TRUE]
    /\ request.model /\ request.frame = "invalid"
    /\ response.status = 400
    /\ buffer # << >> /\ server_log = buffer

\* the least of a non-empty set of numbers
MinOf(S) == CHOOSE x \in S : \A y \in S : x <= y

\* the least _levenshtein distance from s to a word of the whole lexicon
UnprunedLeast(s) == MinOf({_levenshtein(s, w) : w \in COMMON_WORDS})

\* the lexicon words whose length is within max_distance of s's, and at
\* least 1, and the least distance from s to one of them (max_distance + 1
\* where there is none)
WindowWords(s, max_distance) ==
    {w \in COMMON_WORDS :
        /\ Len(w) >= 1
        /\ Len(w) >= Len(s) - max_distance
        /\ Len(w) <= Len(s) + max_distance}

WindowLeast(s, max_distance) ==
    MinOf({_levenshtein(s, w) : w \in WindowWords(s, max_distance)}
          \cup {max_distance + 1})

\* C29: for a non-empty raw string that is not a lexicon word, the least
\* distance within the window of lengths is the least distance over the
\* whole lexicon whenever that is at most max_distance, and the search over
\* the window accepts (returns a lexicon word at that least distance)
\* exactly when a search over the whole lexicon would.
C29_WindowLosesNothing ==
    (Returned("_match_word") /\ raw # << >> /\ Lower(raw) \notin COMMON_WORDS) =>
        LET whole == UnprunedLeast(Lower(raw))
            window == WindowLeast(Lower(raw), DEFAULT_MAX_DISTANCE)
        IN  /\ whole <= DEFAULT_MAX_DISTANCE => window = whole
            /\ whole > DEFAULT_MAX_DISTANCE => window > DEFAULT_MAX_DISTANCE
            /\ whole <= DEFAULT_MAX_DISTANCE
                  => /\ matched \in COMMON_WORDS
                     /\ _levenshtein(Lower(raw), matched) = whole
            /\ whole > DEFAULT_MAX_DISTANCE => matched = raw

\* C29 witness: "qqa" corrected to "a", the one lexicon word within
\* distance 2 of it, whose length is at the edge of the window.
C29_Witness ==
    /\ Returned("_match_word")
    /\ raw = << "q", "q", "a" >>
    /\ matched = << "a" >>
    /\ UnprunedLeast(raw) = DEFAULT_MAX_DISTANCE

\* the edit distance of a and b: the least number of insertions, deletions
\* and substitutions of one character that turn a into b
EditDistance(a, b) == EditsUpTo(a, b, Len(a) + Len(b))

\* C30: _levenshtein(s1, s2) is the edit distance of s1 and s2; it is the
\* same with the arguments exchanged, 0 exactly when the strings are equal,
\* and the other string's length when one string is empty.
C30_LevenshteinIsEditDistance ==
    Returned("_levenshtein") =>
        /\ distance = EditDistance(raw, other)
        /\ distance = _levenshtein(other, raw)
        /\ distance = 0 <=> raw = other
        /\ raw = << >> => distance = Len(other)
        /\ other = << >> => distance = Len(raw)

\* C30 witness: "ab" and "bab" (one insertion) with the shorter string
\* first, which _levenshtein exchanges.
C30_Witness ==
    /\ Returned("_levenshtein")
    /\ raw = << "a", "b" >>
    /\ other = << "b", "a", "b" >>
    /\ distance = 1

====
